---- MODULE Spec2Model ----
(***************************************************************************)
(* Model of the inspection scoring engine of the vehicle checklist app:    *)
(* src/pdf_service.py (_calculate_summary_percentages,                     *)
(* _calculate_group_pass_rates, _get_resolution_advice,                    *)
(* _generate_comments_and_analysis) as it is driven by the inspection-form *)
(* submit handler of src/stream.py, and the wizard of src/stream.py that   *)
(* leads to that handler.                                                  *)
(*                                                                         *)
(* A Python str is a sequence of one-character strings, so that strip(),   *)
(* lower(), concatenation and int formatting are computed, not assumed.    *)
(* A Python float that holds 100*count/total is the exact fraction         *)
(* [num, den]; the double arithmetic of the code agrees with the exact     *)
(* fraction after '.0f' formatting for every total below 40 (the first     *)
(* disagreement is 23/40*100 = 57.49999999999999), which covers the bounds *)
(* used here.                                                              *)
(***************************************************************************)
EXTENDS Integers, Sequences, FiniteSets, TLC

VARIABLES
    checklist_data,       \* FullChecklist: sequence of ChecklistGroup records
    submitted_form_data,  \* dict: composite key -> raw answer
    pc,                   \* position of the submit handler / report build
    summary_percentages,  \* result of the last _calculate_summary_percentages
    first_summary,        \* result of the submit handler's own call (stream.py:674)
    group_pass_rate_data, \* result of _calculate_group_pass_rates
    advice_call,          \* last call of _get_resolution_advice: args and result
    comments_call,        \* last call of _generate_comments_and_analysis
    key_call,             \* the composite keys built for two items
    session_state,        \* st.session_state of src/stream.py
    widgets,              \* the buttons the report section has rendered
    openai,               \* the OpenAI account: resources created, runs
    config_json,          \* the file config.json
    llm_call              \* a call of get_checklist_from_openai / generate_trip_advice

vars == <<checklist_data, submitted_form_data, pc, summary_percentages,
          first_summary, group_pass_rate_data, advice_call, comments_call,
          key_call, session_state, widgets, openai, config_json, llm_call>>

\* no button rendered; an account nothing was created in; no config.json
NoWidgets == {}

NoAccountActivity == [resources |-> <<>>, runs |-> <<>>]

NoConfigFile == [exists |-> FALSE]

----------------------------------------------------------------------------
(* Bounds of the model *)

\* groups of a generated checklist
MaxGroups == 2

\* items of a generated checklist, over all its groups
MaxItems == 3

\* whitespace characters put on each side of a typed answer
MaxPad == 1

\* items of the single group of a pass-rate checklist
MaxRateItems == 8

----------------------------------------------------------------------------
(* Python values *)

\* Python None (an answer stored as None, or dict.get of a missing key); no
\* str equals it, because every element of a str is a single character
None == <<"None">>

\* A function that has not been called yet
NotCalled == [outcome |-> "not_called"]

\* An exception propagating out of a function
Raised == [outcome |-> "raised"]

\* A function that returned v
Returned(v) == [outcome |-> "returned", value |-> v]

\* dict.get(k): the stored value, None for a missing key
DictGet(d, k) == IF k \in DOMAIN d THEN d[k] ELSE None

----------------------------------------------------------------------------
(* str operations *)

UpperChars == <<"A","B","C","D","E","F","G","H","I","J","K","L","M",
                "N","O","P","Q","R","S","T","U","V","W","X","Y","Z">>

LowerChars == <<"a","b","c","d","e","f","g","h","i","j","k","l","m",
                "n","o","p","q","r","s","t","u","v","w","x","y","z">>

\* the characters str.strip() removes
Whitespace == {" ", "\t", "\n", "\r"}

\* the lowercase of every uppercase letter
LowerOf == [c \in {UpperChars[i] : i \in 1..26} |->
               LowerChars[CHOOSE i \in 1..26 : UpperChars[i] = c]]

\* the uppercase of every lowercase letter
UpperOf == [c \in {LowerChars[i] : i \in 1..26} |->
               UpperChars[CHOOSE i \in 1..26 : LowerChars[i] = c]]

LowerChar(c) == IF c \in DOMAIN LowerOf THEN LowerOf[c] ELSE c

UpperChar(c) == IF c \in DOMAIN UpperOf THEN UpperOf[c] ELSE c

\* str.lower()
Lower(s) == [i \in 1..Len(s) |-> LowerChar(s[i])]

\* str.upper()
Upper(s) == [i \in 1..Len(s) |-> UpperChar(s[i])]

\* str.strip(): drop leading and trailing whitespace, keep inner whitespace
Strip(s) ==
    LET keep == {i \in 1..Len(s) : s[i] \notin Whitespace}
    IN  IF keep = {} THEN <<>>
        ELSE LET lo == CHOOSE i \in keep : \A j \in keep : i <= j
                 hi == CHOOSE i \in keep : \A j \in keep : j <= i
             IN  SubSeq(s, lo, hi)

Digits == <<"0","1","2","3","4","5","6","7","8","9">>

RECURSIVE NatToStr(_)
NatToStr(n) ==
    IF n < 10 THEN <<Digits[n + 1]>>
    ELSE NatToStr(n \div 10) \o <<Digits[(n % 10) + 1]>>

\* str(int) / f"{int}"
IntToStr(n) == IF n < 0 THEN <<"-">> \o NatToStr(-n) ELSE NatToStr(n)

----------------------------------------------------------------------------
(* Literals of src/pdf_service.py *)

S_pass == <<"p","a","s","s">>

S_yes == <<"y","e","s">>

S_okay == <<"o","k","a","y">>

S_fail == <<"f","a","i","l">>

S_no == <<"n","o">>

S_not_okay == <<"n","o","t"," ","o","k","a","y">>

S_no_selection_made == <<"n","o"," ","s","e","l","e","c","t","i","o","n"," ","m","a","d","e">>

\* the Literal of ChecklistType
T_PassFail == <<"P","a","s","s","/","F","a","i","l">>

T_YesNo == <<"Y","e","s","/","N","o">>

T_OkayNotOkay == <<"O","k","a","y","/","N","o","t"," ","O","k","a","y">>

ChecklistTypes == <<T_PassFail, T_YesNo, T_OkayNotOkay>>

\* result in ["pass", "yes", "okay"]
PassWords == {S_pass, S_yes, S_okay}

\* result in ["fail", "no", "not okay"]
FailWords == {S_fail, S_no, S_not_okay}

----------------------------------------------------------------------------
(* _calculate_summary_percentages *)

\* unique_id = f"{group.GroupId}_{item.ChecklistId}_{item.ChecklistSerialNo}"
UniqueId(group, item) ==
    group.GroupId \o <<"_">> \o item.ChecklistId \o <<"_">>
        \o IntToStr(item.ChecklistSerialNo)

\* the variant of the commented-out line 315: .strip() on whatever get() gave
NormalizeNoNoneCheck(raw_result) ==
    IF raw_result = None THEN Raised ELSE Returned(Lower(Strip(raw_result)))

\* the comparison made case-sensitive: .strip() without .lower()
NormalizeKeepsCase(raw_result) ==
    IF raw_result = None
    THEN Returned(S_no_selection_made)
    ELSE Returned(Strip(raw_result))

\* raw_result -> result: None becomes "no selection made", anything else is
\* str(raw_result).strip().lower()
Normalize(raw_result) ==
    IF raw_result = None
    THEN Returned(S_no_selection_made)
    ELSE Returned(Lower(Strip(raw_result)))

\* the catch-all branch forgotten: an unexpected string lands in no bucket
ClassifyNoCatchAll(result) ==
    IF result \in PassWords THEN "passed"
    ELSE IF result \in FailWords THEN "failed"
    ELSE IF result = S_no_selection_made THEN "skipped"
    ELSE "uncounted"

\* "n/a (not applicable)" taken for a pass
ClassifyNotApplicablePasses(result) ==
    IF result \in PassWords
          \/ result = <<"n","/","a"," ","(","n","o","t"," ","a","p","p","l",
                        "i","c","a","b","l","e",")">>
    THEN "passed"
    ELSE IF result \in FailWords THEN "failed"
    ELSE "skipped"

\* the if / elif / elif / else chain over result
Classify(result) ==
    IF result \in PassWords THEN "passed"
    ELSE IF result \in FailWords THEN "failed"
    ELSE IF result = S_no_selection_made THEN "skipped"
    ELSE "skipped"

\* accumulators that outlive the call (a module-level list and counters)
LeakyAccumulators ==
    IF first_summary.outcome = "returned"
    THEN [total_items |-> 0, passed_count |-> 0, failed_count |-> 0,
          skipped_count |-> 0,
          items_requiring_attention |-> first_summary.value.items_requiring_attention,
          raised |-> FALSE]
    ELSE [total_items |-> 0, passed_count |-> 0, failed_count |-> 0,
          skipped_count |-> 0, items_requiring_attention |-> <<>>,
          raised |-> FALSE]

\* the locals at the top of the function
InitialAccumulators ==
    [total_items |-> 0, passed_count |-> 0, failed_count |-> 0,
     skipped_count |-> 0, items_requiring_attention |-> <<>>, raised |-> FALSE]

AttentionEntry(item, status) ==
    [name |-> item.ChecklistName, type |-> item.ChecklistType, status |-> status]

\* a passed item listed as well
ItemStepListsPassed(acc, group, item, form_data) ==
    LET n == Normalize(DictGet(form_data, UniqueId(group, item)))
        c == Classify(n.value)
    IN  [acc EXCEPT !.total_items = @ + 1,
                    !.passed_count = IF c = "passed" THEN @ + 1 ELSE @,
                    !.failed_count = IF c = "failed" THEN @ + 1 ELSE @,
                    !.skipped_count = IF c = "skipped" THEN @ + 1 ELSE @,
                    !.items_requiring_attention = Append(@, AttentionEntry(item, c))]

\* one iteration of the inner loop
ItemStep(acc, group, item, form_data) ==
    IF acc.raised THEN acc
    ELSE LET n == Normalize(DictGet(form_data, UniqueId(group, item)))
         IN  IF n.outcome = "raised"
             THEN [acc EXCEPT !.total_items = @ + 1, !.raised = TRUE]
             ELSE LET c == Classify(n.value)
                  IN  [acc EXCEPT
                        !.total_items = @ + 1,
                        !.passed_count = IF c = "passed" THEN @ + 1 ELSE @,
                        !.failed_count = IF c = "failed" THEN @ + 1 ELSE @,
                        !.skipped_count = IF c = "skipped" THEN @ + 1 ELSE @,
                        !.items_requiring_attention =
                            IF c \in {"failed", "skipped"}
                            THEN Append(@, AttentionEntry(item, c))
                            ELSE @]

\* for item in group.Checklist, from item k on
RECURSIVE ItemLoop(_, _, _, _)
ItemLoop(acc, group, k, form_data) ==
    IF k > Len(group.Checklist) THEN acc
    ELSE ItemLoop(ItemStep(acc, group, group.Checklist[k], form_data),
                  group, k + 1, form_data)

\* for group in checklist_data.root, from group g on
RECURSIVE GroupLoop(_, _, _, _)
GroupLoop(acc, checklist, g, form_data) ==
    IF g > Len(checklist) THEN acc
    ELSE GroupLoop(ItemLoop(acc, checklist[g], 1, form_data),
                   checklist, g + 1, form_data)

\* the division without its guard
PercentageUnguarded(count, total_items) ==
    IF total_items = 0 THEN Raised
    ELSE Returned([num |-> count * 100, den |-> total_items])

\* (count / total_items * 100) if total_items > 0 else 0
Percentage(count, total_items) ==
    IF total_items > 0
    THEN Returned([num |-> count * 100, den |-> total_items])
    ELSE Returned([num |-> 0, den |-> 1])

\* total_items taken from the answers instead of the checklist
CalculateSummaryPercentagesCountsAnswers(checklist, form_data) ==
    LET acc == GroupLoop(InitialAccumulators, checklist, 1, form_data)
        n == Cardinality(DOMAIN form_data)
    IN  Returned(
          [total_items |-> n,
           passed_count |-> acc.passed_count,
           passed_percentage |-> Percentage(acc.passed_count, n).value,
           failed_count |-> acc.failed_count,
           failed_percentage |-> Percentage(acc.failed_count, n).value,
           skipped_count |-> acc.skipped_count,
           skipped_percentage |-> Percentage(acc.skipped_count, n).value,
           items_requiring_attention |-> acc.items_requiring_attention])

\* _calculate_summary_percentages(checklist_data, submitted_form_data)
CalculateSummaryPercentages(checklist, form_data) ==
    LET acc == GroupLoop(InitialAccumulators, checklist, 1, form_data)
        pp == Percentage(acc.passed_count, acc.total_items)
        fp == Percentage(acc.failed_count, acc.total_items)
        sp == Percentage(acc.skipped_count, acc.total_items)
    IN  IF acc.raised \/ "raised" \in {pp.outcome, fp.outcome, sp.outcome}
        THEN Raised
        ELSE Returned(
               [total_items |-> acc.total_items,
                passed_count |-> acc.passed_count,
                passed_percentage |-> pp.value,
                failed_count |-> acc.failed_count,
                failed_percentage |-> fp.value,
                skipped_count |-> acc.skipped_count,
                skipped_percentage |-> sp.value,
                items_requiring_attention |-> acc.items_requiring_attention])

----------------------------------------------------------------------------
(* _calculate_group_pass_rates *)

\* the second copy of the normalisation without .lower()
GroupNormalizeKeepsCase(raw_result) ==
    IF raw_result = None
    THEN S_no_selection_made
    ELSE Strip(raw_result)

\* raw_result -> result, as written a second time inside the group loop
GroupNormalize(raw_result) ==
    IF raw_result = None
    THEN S_no_selection_made
    ELSE Lower(Strip(raw_result))

\* group_total_items = 0; group_passed_count = 0 at the top of each group
InitialGroupCounters == [group_total_items |-> 0, group_passed_count |-> 0]

\* the counters initialised once, before the group loop
GroupCountersCarriedOver(counters) == counters

\* the counters a group starts with, given those the previous group ended with
GroupCountersAtGroupStart(counters) == InitialGroupCounters

\* one iteration of the inner loop
GroupItemStep(counters, group, item, form_data) ==
    LET result == GroupNormalize(DictGet(form_data, UniqueId(group, item)))
    IN  [group_total_items |-> counters.group_total_items + 1,
         group_passed_count |->
             IF result \in PassWords
             THEN counters.group_passed_count + 1
             ELSE counters.group_passed_count]

RECURSIVE GroupItemLoop(_, _, _, _)
GroupItemLoop(counters, group, k, form_data) ==
    IF k > Len(group.Checklist) THEN counters
    ELSE GroupItemLoop(GroupItemStep(counters, group, group.Checklist[k], form_data),
                       group, k + 1, form_data)

\* '.0f' with halves rounded up
RoundHalfUp(num, den) ==
    IF 2 * (num % den) >= den THEN (num \div den) + 1 ELSE num \div den

\* '.0f' of the non-negative value num/den: the nearest integer, an exact half
\* going to the even neighbour (round-half-even of the C library)
RoundHalfEven(num, den) ==
    LET q == num \div den
        r == num % den
    IN  IF 2 * r > den THEN q + 1
        ELSE IF 2 * r < den THEN q
        ELSE IF q % 2 = 0 THEN q ELSE q + 1

\* group_pass_percentage: 0.0, or (group_passed_count / group_total_items) * 100
GroupPassPercentage(counters) ==
    IF counters.group_total_items > 0
    THEN [num |-> counters.group_passed_count * 100,
          den |-> counters.group_total_items]
    ELSE [num |-> 0, den |-> 1]

\* f"{group_pass_percentage:.0f}%"
FormatPassRate(pct) == IntToStr(RoundHalfEven(pct.num, pct.den)) \o <<"%">>

\* for group in checklist_data.root, from group g on; st carries the list built
\* so far and the two counters
RECURSIVE GroupRateLoop(_, _, _, _)
GroupRateLoop(st, checklist, g, form_data) ==
    IF g > Len(checklist) THEN st
    ELSE LET group == checklist[g]
             counters == GroupItemLoop(GroupCountersAtGroupStart(st.counters),
                                       group, 1, form_data)
             entry == [GroupName |-> group.GroupName,
                       PassRate |-> FormatPassRate(GroupPassPercentage(counters))]
         IN  GroupRateLoop([rates |-> Append(st.rates, entry), counters |-> counters],
                           checklist, g + 1, form_data)

\* _calculate_group_pass_rates(checklist_data, submitted_form_data)
CalculateGroupPassRates(checklist, form_data) ==
    Returned(GroupRateLoop([rates |-> <<>>, counters |-> InitialGroupCounters],
                           checklist, 1, form_data).rates)

----------------------------------------------------------------------------
(* _get_resolution_advice *)

k_pass_fail == <<"p","a","s","s","/","f","a","i","l">>

k_yes_no == <<"y","e","s","/","n","o">>

k_okay_not_okay == <<"o","k","a","y","/","n","o","t"," ","o","k","a","y">>

\* an f-string "For '{item_name}' ..." : the literal text around the name
FString(item_name, tail) == [head |-> "For '", name |-> item_name, tail |-> tail]

AdvicePassFail == "' (Failed): Inspect the component thoroughly for wear, damage, or malfunction. Consult a qualified mechanic for repair or replacement."

AdviceYesNo == "' (Failed): Investigate why the condition is not met. Address the underlying issue (e.g., refill, repair, adjust) to ensure compliance."

AdviceOkayNotOkay == "' (Failed): Identify the specific defect or anomaly. Immediate corrective action or professional repair is advised to restore the item to an 'Okay' state."

AdviceGeneric == "' (Failed): This item requires attention. Please consult the vehicle's maintenance manual or a professional for specific resolution steps."

AdviceSkipped == "' (Skipped/No Selection): This item was not assessed during the inspection. It is highly recommended to perform a thorough check of this component to ensure it is in good working order and meets safety standards."

AdviceUnknown == "' (Status Unknown): This item's status is unclear. A full assessment is recommended to determine necessary actions."

\* advice_map.get(item_type_lower, <generic>) with the type not lowercased first
AdviceMapGetExact(item_type_lower) ==
    IF item_type_lower = T_PassFail THEN AdvicePassFail
    ELSE IF item_type_lower = T_YesNo THEN AdviceYesNo
    ELSE IF item_type_lower = T_OkayNotOkay THEN AdviceOkayNotOkay
    ELSE AdviceGeneric

\* advice_map.get(item_type_lower, <generic>)
AdviceMapGet(item_type_lower) ==
    IF item_type_lower = k_pass_fail THEN AdvicePassFail
    ELSE IF item_type_lower = k_yes_no THEN AdviceYesNo
    ELSE IF item_type_lower = k_okay_not_okay THEN AdviceOkayNotOkay
    ELSE AdviceGeneric

\* _get_resolution_advice(item_name, item_type, item_status)
GetResolutionAdvice(item_name, item_type, item_status) ==
    LET item_type_lower == Lower(item_type)
    IN  IF item_status = "failed"
        THEN Returned(FString(item_name, AdviceMapGet(item_type_lower)))
        ELSE IF item_status = "skipped"
        THEN Returned(FString(item_name, AdviceSkipped))
        ELSE Returned(FString(item_name, AdviceUnknown))

----------------------------------------------------------------------------
(* _generate_comments_and_analysis *)

\* Characters outside ASCII are written by code point: "U+26A0" is one
\* character of the str.

\* '## <warning sign> Trip Preparedness: Caution Needed'
H_Caution ==
    <<"#","#"," ","U+26A0","U+FE0F"," ","T","r","i","p"," ","P","r","e","p",
      "a","r","e","d","n","e","s","s",":"," ","C","a","u","t","i","o","n",
      " ","N","e","e","d","e","d">>

\* '<b>Overall Trip Preparedness: Caution Needed</b>'
B_Caution ==
    <<"<","b",">","O","v","e","r","a","l","l"," ","T","r","i","p"," ","P",
      "r","e","p","a","r","e","d","n","e","s","s",":"," ","C","a","u","t",
      "i","o","n"," ","N","e","e","d","e","d","<","/","b",">">>

\* '## <check mark> Trip Preparedness: All Clear!'
H_AllClear ==
    <<"#","#"," ","U+2705"," ","T","r","i","p"," ","P","r","e","p","a","r",
      "e","d","n","e","s","s",":"," ","A","l","l"," ","C","l","e","a","r",
      "!">>

\* '<b>Overall Trip Preparedness: All Clear!</b>'
B_AllClear ==
    <<"<","b",">","O","v","e","r","a","l","l"," ","T","r","i","p"," ","P",
      "r","e","p","a","r","e","d","n","e","s","s",":"," ","A","l","l"," ",
      "C","l","e","a","r","!","<","/","b",">">>

\* '<br/>'
BR == <<"<","b","r","/",">">>

\* s.find(old): the 1-based position of the first occurrence of old, or 0
Find(s, old) ==
    LET at == {i \in 1..(Len(s) - Len(old) + 1) :
                  SubSeq(s, i, i + Len(old) - 1) = old}
    IN  IF at = {} THEN 0 ELSE CHOOSE i \in at : \A j \in at : i <= j

\* s.replace(old, new) for a non-empty old: every occurrence, left to right,
\* without overlap
RECURSIVE Replace(_, _, _)
Replace(s, old, new) ==
    LET i == Find(s, old)
    IN  IF i = 0 THEN s
        ELSE SubSeq(s, 1, i - 1) \o new
             \o Replace(SubSeq(s, i + Len(old), Len(s)), old, new)

\* the truth value in an if of a value that is a str or None
Truthy(v) == v # None /\ v # <<>>

\* the truth value in an if of a list
TruthyList(l) == Len(l) > 0

\* d.get(k, default)
DictGetDefault(d, k, default) == IF k \in DOMAIN d THEN d[k] ELSE default

\* the text of a Paragraph: a str built by the code, a literal of the source,
\* or an f-string (its source text and the values formatted into it)
Str(chars) == [form |-> "str", chars |-> chars]

Literal(text) == [form |-> "literal", text |-> text]

FormatString(template, values) ==
    [form |-> "fstring", template |-> template, values |-> values]

Paragraph(text, style) == [kind |-> "Paragraph", text |-> text, style |-> style]

\* Spacer(1, height * inch)
Spacer(height) == [kind |-> "Spacer", width |-> 1, height |-> height]

\* f"{x:.0f}" of a percentage
FormatPercent(pct) == IntToStr(RoundHalfEven(pct.num, pct.den))

\* the advisory text with its newlines left in
AdvisoryLinesKeepNewlines(trip_advice_content) ==
    IF Truthy(trip_advice_content)
    THEN LET d1 == Replace(trip_advice_content, H_Caution, B_Caution)
             display_trip_advice == Replace(d1, H_AllClear, B_AllClear)
         IN  <<Paragraph(Str(display_trip_advice), "normal_style"),
               Spacer("0.1")>>
    ELSE <<>>

\* lines 443-449: the advisory text, when there is one
AdvisoryLines(trip_advice_content) ==
    IF Truthy(trip_advice_content)
    THEN LET d1 == Replace(trip_advice_content, H_Caution, B_Caution)
             d2 == Replace(d1, H_AllClear, B_AllClear)
             display_trip_advice == Replace(d2, <<"\n">>, BR)
         IN  <<Paragraph(Str(display_trip_advice), "normal_style"),
               Spacer("0.1")>>
    ELSE <<>>

Text_DetailedAnalysis == "<b>Detailed Inspection Analysis:</b>"

Text_Excellent == "<b>Overall Assessment:</b> The vehicle recorded an excellent pass rate of {passed_percentage:.0f}% ({passed_count} out of {total_items} items passed). There were {failed_count} failed items ({failed_percentage:.0f}%) and {skipped_count} skipped items ({skipped_percentage:.0f}%). This indicates the vehicle is in <b>optimal condition</b> with minimal to no identified issues. Regular maintenance should continue to ensure its performance and ensure long-term reliability."

Text_Mixed == "<b>Overall Assessment:</b> The vehicle recorded a pass rate of {passed_percentage:.0f}% ({passed_count} out of {total_items} items passed). There were {failed_count} failed items ({failed_percentage:.0f}%) and {skipped_count} skipped items ({skipped_percentage:.0f}%). This indicates a mixed condition with a notable number of areas requiring attention. Focused and timely corrective actions are essential to significantly improve the vehicle's reliability, safety, and compliance."

Text_AllSkipped == "<b>Overall Assessment:</b> With all {total_items} items skipped, the inspection is incomplete. A pass rate of 0% was recorded as no items were positively assessed ({skipped_percentage:.0f}% skipped). A full and verified inspection is necessary to provide a definitive assessment of the vehicle's condition and compliance."

Text_NonCompliance == "<b>Overall Assessment:</b> With a pass rate of {passed_percentage:.0f}% ({passed_count} out of {total_items} items passed), and {failed_count} failed items ({failed_percentage:.0f}%), this inspection highlights that the vehicle has <b>significant non-compliance issues</b>. Extensive repairs and maintenance are urgently required to meet operational and safety standards before the vehicle can be considered roadworthy."

Text_ResolutionHeader == "<b>Resolution Advice for Items Requiring Attention:</b>"

Text_NoAdviceNeeded == "All inspected items passed or were fully assessed. No specific resolution advice needed."

Text_DisclaimerHeader == "<b>General Notes & Disclaimer:</b>"

Text_Disclaimer == "This report provides an assessment based on the submitted inspection data. It is recommended to consult with a certified mechanic for a professional diagnosis and repair of any identified issues. Regular maintenance is key to vehicle safety and longevity."

\* the values the four f-strings format
AssessmentValues(stats) ==
    [total_items |-> IntToStr(stats.total_items),
     passed_count |-> IntToStr(stats.passed_count),
     failed_count |-> IntToStr(stats.failed_count),
     skipped_count |-> IntToStr(stats.skipped_count),
     passed_percentage |-> FormatPercent(stats.passed_percentage),
     failed_percentage |-> FormatPercent(stats.failed_percentage),
     skipped_percentage |-> FormatPercent(stats.skipped_percentage)]

\* the comparison of lines 469 and 471 made strict
MoreThan(pct, k) == pct.num > k * pct.den

\* x >= k for the float x = pct.num / pct.den
AtLeast(pct, k) == pct.num >= k * pct.den

\* lines 456-466: the locals read from the dict
StatsLocals(summary) ==
    [total_items |-> DictGetDefault(summary, "total_items", 0),
     passed_count |-> DictGetDefault(summary, "passed_count", 0),
     failed_count |-> DictGetDefault(summary, "failed_count", 0),
     skipped_count |-> DictGetDefault(summary, "skipped_count", 0),
     passed_percentage |->
         DictGetDefault(summary, "passed_percentage",
                        [num |-> 0, den |-> 1]),
     failed_percentage |->
         DictGetDefault(summary, "failed_percentage",
                        [num |-> 0, den |-> 1]),
     skipped_percentage |->
         DictGetDefault(summary, "skipped_percentage",
                        [num |-> 0, den |-> 1]),
     items_requiring_attention |->
         DictGetDefault(summary, "items_requiring_attention", <<>>)]

\* the third test without its total_items > 0
OverallAssessmentTextEmptyIsSkipped(stats) ==
    IF AtLeast(stats.passed_percentage, 90) THEN Text_Excellent
    ELSE IF AtLeast(stats.passed_percentage, 50) THEN Text_Mixed
    ELSE IF stats.skipped_count = stats.total_items THEN Text_AllSkipped
    ELSE Text_NonCompliance

\* lines 469-476: the if / elif / elif / else that picks the wording
OverallAssessmentText(stats) ==
    IF AtLeast(stats.passed_percentage, 90) THEN Text_Excellent
    ELSE IF AtLeast(stats.passed_percentage, 50) THEN Text_Mixed
    ELSE IF stats.skipped_count = stats.total_items /\ stats.total_items > 0
    THEN Text_AllSkipped
    ELSE Text_NonCompliance

OverallAssessment(stats) ==
    Paragraph(FormatString(OverallAssessmentText(stats), AssessmentValues(stats)),
              "normal_style")

\* item_info.get(...) with its three defaults
Text_UnknownItem == <<"U","n","k","n","o","w","n"," ","I","t","e","m">>

Text_UnknownType == <<"U","n","k","n","o","w","n"," ","T","y","p","e">>

\* the paragraph numbered with the 0-based position itself
NumberedAdviceFromZero(i, item_info) ==
    LET item_name == DictGetDefault(item_info, "name", Text_UnknownItem)
        item_type == DictGetDefault(item_info, "type", Text_UnknownType)
        item_status == DictGetDefault(item_info, "status", "unknown")
        advice == GetResolutionAdvice(item_name, item_type, item_status).value
    IN  Paragraph(FormatString("{i+1}. {advice}",
                               [number |-> IntToStr(i), advice |-> advice]),
                  "normal_style")

\* lines 488-494: f"{i+1}. {advice}" for the entry at 0-based position i
NumberedAdvice(i, item_info) ==
    LET item_name == DictGetDefault(item_info, "name", Text_UnknownItem)
        item_type == DictGetDefault(item_info, "type", Text_UnknownType)
        item_status == DictGetDefault(item_info, "status", "unknown")
        advice == GetResolutionAdvice(item_name, item_type, item_status).value
    IN  Paragraph(FormatString("{i+1}. {advice}",
                               [number |-> IntToStr(i + 1), advice |-> advice]),
                  "normal_style")

\* lines 487-495: for i, item_info in enumerate(items_requiring_attention),
\* from the entry at 1-based position k on
RECURSIVE AdviceLoop(_, _)
AdviceLoop(items_requiring_attention, k) ==
    IF k > Len(items_requiring_attention) THEN <<>>
    ELSE <<NumberedAdvice(k - 1, items_requiring_attention[k]), Spacer("0.05")>>
         \o AdviceLoop(items_requiring_attention, k + 1)

\* lines 484-497
AdviceSection(items_requiring_attention) ==
    IF TruthyList(items_requiring_attention)
    THEN <<Paragraph(Literal(Text_ResolutionHeader), "h3_style"), Spacer("0.1")>>
         \o AdviceLoop(items_requiring_attention, 1)
    ELSE <<Paragraph(Literal(Text_NoAdviceNeeded), "normal_style")>>

\* lines 502-504
DisclaimerLines ==
    <<Paragraph(Literal(Text_DisclaimerHeader), "h3_style"), Spacer("0.1"),
      Paragraph(Literal(Text_Disclaimer), "normal_style")>>

\* _generate_comments_and_analysis(summary_percentages, trip_advice_content)
GenerateCommentsAndAnalysis(summary, trip_advice_content) ==
    LET stats == StatsLocals(summary)
    IN  Returned(
            AdvisoryLines(trip_advice_content)
            \o <<Paragraph(Literal(Text_DetailedAnalysis), "h3_style"),
                 Spacer("0.1")>>
            \o <<OverallAssessment(stats), Spacer("0.2")>>
            \o AdviceSection(stats.items_requiring_attention)
            \o <<Spacer("0.2")>>
            \o DisclaimerLines)

----------------------------------------------------------------------------
(* Inputs: checklists as the generator returns them, answers as a caller may *)
(* pass them                                                                 *)

O_SelectStatus == <<"S","e","l","e","c","t"," ","S","t","a","t","u","s">>

O_Pass == <<"P","a","s","s">>

O_Fail == <<"F","a","i","l">>

O_NA == <<"N","/","A"," ","(","N","o","t"," ","A","p","p","l","i","c","a","b","l","e",")">>

\* options = ["Select Status", "Pass", "Fail", "N/A (Not Applicable)"]
Options == <<O_SelectStatus, O_Pass, O_Fail, O_NA>>

\* ChecklistItem number i of group number g; the types rotate from offset off
MakeItem(g, i, off) ==
    [ChecklistName |-> <<"C","h","e","c","k"," ">> \o IntToStr(g) \o <<".">> \o IntToStr(i),
     ChecklistSerialNo |-> i,
     ChecklistId |-> <<"i","t","e","m","-">> \o IntToStr(i),
     ChecklistType |-> ChecklistTypes[((g + i + off) % 3) + 1]]

\* ChecklistGroup number g with n items
MakeGroup(g, n, off) ==
    [GroupName |-> <<"G","r","o","u","p"," ">> \o IntToStr(g),
     GroupId |-> <<"g","r","o","u","p","-">> \o IntToStr(g),
     SerialNo |-> g,
     Checklist |-> [i \in 1..n |-> MakeItem(g, i, off)]]

\* FullChecklist whose group g has shape[g] items
MakeChecklist(shape, off) == [g \in 1..Len(shape) |-> MakeGroup(g, shape[g], off)]

RECURSIVE SumSeq(_)
SumSeq(s) == IF s = <<>> THEN 0 ELSE Head(s) + SumSeq(Tail(s))

Shapes ==
    {sh \in UNION {[1..n -> 0..MaxItems] : n \in 0..MaxGroups} : SumSeq(sh) <= MaxItems}

\* the composite keys of the items of a checklist
ItemKeys(checklist) ==
    UNION {{UniqueId(checklist[g], checklist[g].Checklist[i]) :
                i \in 1..Len(checklist[g].Checklist)} : g \in 1..Len(checklist)}

\* dicts that answer some of the keys with one of the values
AnswerMaps(keys, values) == UNION {[D -> values] : D \in SUBSET keys}

\* keys that are the key of no generated item: one of another checklist, one
\* without its serial number, one with a serial number no item has
StaleKeys ==
    {<<"g","r","o","u","p","-","0","_","i","t","e","m","-","0","_","0">>,
     <<"g","r","o","u","p","-","1","_","i","t","e","m","-","1">>,
     <<"g","r","o","u","p","-","1","_","i","t","e","m","-","1","_","1","0">>}

\* the dict with the stale key k answered as well
WithStaleKey(form_data, k) ==
    [j \in DOMAIN form_data \cup {k} |->
        IF j \in DOMAIN form_data THEN form_data[j]
        ELSE IF Len(k) = 14 THEN O_Fail ELSE O_Pass]

\* what a caller may type, before case and padding are varied
Words ==
    {S_pass, S_yes, S_okay, S_fail, S_no, S_not_okay, S_no_selection_made, <<>>,
     Lower(O_NA), Lower(O_SelectStatus),
     <<"p","a","s","s","e","d">>, <<"n","o","t"," "," ","o","k","a","y">>,
     <<"n","o","t","\t","o","k","a","y">>, <<"o","k">>}

Capitalize(s) == [i \in 1..Len(s) |-> IF i = 1 THEN UpperChar(s[i]) ELSE s[i]]

Cased(w) == {w, Upper(w), Capitalize(w)}

PadChars == {" ", "\n"}

Pads == UNION {[1..n -> PadChars] : n \in 0..MaxPad}

\* the raw answer values: None and the padded, cased words
RawAnswers ==
    {None} \cup {l \o c \o r : l \in Pads, r \in Pads, c \in UNION {Cased(w) : w \in Words}}

----------------------------------------------------------------------------
(* The submit handler's calls into the scoring engine *)

\* any checklist shape, each item answered "Pass", "Fail" or not at all,
\* possibly with a stale key in the dict
InitShapes ==
    \E sh \in Shapes :
        LET checklist == MakeChecklist(sh, 0)
        IN  \E form_data \in AnswerMaps(ItemKeys(checklist), {O_Pass, O_Fail}) :
            \E stale \in {None} \cup StaleKeys :
                /\ checklist_data = checklist
                /\ submitted_form_data =
                       IF stale = None THEN form_data
                       ELSE WithStaleKey(form_data, stale)

\* one item of each type, answered with any raw value
InitRaw ==
    \E off \in 0..2 :
        LET checklist == MakeChecklist(<<1>>, off)
        IN  \E raw \in RawAnswers :
                /\ checklist_data = checklist
                /\ submitted_form_data = [k \in ItemKeys(checklist) |-> raw]

\* one group of up to MaxRateItems items, each answered "Pass" or "Fail"
InitRates ==
    \E n \in 0..MaxRateItems :
        LET checklist == MakeChecklist(<<n>>, 0)
        IN  \E form_data \in [ItemKeys(checklist) -> {O_Pass, O_Fail}] :
                /\ checklist_data = checklist
                /\ submitted_form_data = form_data

Init ==
    /\ (InitShapes \/ InitRaw \/ InitRates)
    /\ pc = "submitted"
    /\ first_summary = NotCalled
    /\ group_pass_rate_data = NotCalled
    /\ summary_percentages = NotCalled
    /\ advice_call = NotCalled
    /\ comments_call = NotCalled
    /\ key_call = NotCalled
    /\ widgets = NoWidgets
    /\ openai = NoAccountActivity
    /\ config_json = NoConfigFile
    /\ llm_call = NotCalled
    /\ session_state = NotCalled

\* stream.py: summary_percentages = pdf_service._calculate_summary_percentages(...)
SubmitScore ==
    /\ pc = "submitted"
    /\ first_summary' =
           CalculateSummaryPercentages(checklist_data, submitted_form_data)
    /\ pc' = IF first_summary'.outcome = "raised" THEN "raised" ELSE "scored"
    /\ UNCHANGED <<widgets, openai, config_json, llm_call>>
    /\ UNCHANGED <<checklist_data, submitted_form_data, group_pass_rate_data,
                   summary_percentages, advice_call, comments_call,
                   key_call, session_state>>

\* generate_inspection_pdf: group_pass_rate_data = _calculate_group_pass_rates(...)
PdfGroupRates ==
    /\ pc = "scored"
    /\ group_pass_rate_data' =
           CalculateGroupPassRates(checklist_data, submitted_form_data)
    /\ pc' = IF group_pass_rate_data'.outcome = "raised" THEN "raised" ELSE "rated"
    /\ UNCHANGED <<widgets, openai, config_json, llm_call>>
    /\ UNCHANGED <<checklist_data, submitted_form_data, first_summary,
                   summary_percentages, advice_call, comments_call,
                   key_call, session_state>>

\* generate_inspection_pdf: summary_percentages = _calculate_summary_percentages(...)
PdfSummary ==
    /\ pc = "rated"
    /\ summary_percentages' =
           CalculateSummaryPercentages(checklist_data, submitted_form_data)
    /\ pc' = IF summary_percentages'.outcome = "raised" THEN "raised" ELSE "summarised"
    /\ UNCHANGED <<widgets, openai, config_json, llm_call>>
    /\ UNCHANGED <<checklist_data, submitted_form_data, first_summary,
                   group_pass_rate_data, advice_call, comments_call,
                   key_call, session_state>>

Next == SubmitScore \/ PdfGroupRates \/ PdfSummary

Spec == Init /\ [][Next]_vars

----------------------------------------------------------------------------
(* _get_resolution_advice called on its own, with any three strings *)

AdviceNames == {<<"T","y","r","e","s">>, <<>>}

AdviceTypes ==
    UNION {{t, Lower(t), Upper(t), t \o <<" ">>} :
              t \in {T_PassFail, T_YesNo, T_OkayNotOkay}}
    \cup {<<>>, <<"U","n","k","n","o","w","n"," ","T","y","p","e">>,
          <<"P","a","s","s">>}

AdviceStatuses == {"failed", "skipped", "passed", "Failed", "SKIPPED", "unknown", ""}

InitAdvice ==
    /\ checklist_data = <<>>
    /\ submitted_form_data = <<>>
    /\ pc = "advice"
    /\ first_summary = NotCalled
    /\ group_pass_rate_data = NotCalled
    /\ summary_percentages = NotCalled
    /\ advice_call = NotCalled
    /\ comments_call = NotCalled
    /\ key_call = NotCalled
    /\ widgets = NoWidgets
    /\ openai = NoAccountActivity
    /\ config_json = NoConfigFile
    /\ llm_call = NotCalled
    /\ session_state = NotCalled

CallAdvice ==
    /\ pc = "advice"
    /\ \E item_name \in AdviceNames, item_type \in AdviceTypes,
          item_status \in AdviceStatuses :
          advice_call' = [outcome |-> "called",
                          item_name |-> item_name,
                          item_type |-> item_type,
                          item_status |-> item_status,
                          result |-> GetResolutionAdvice(item_name, item_type,
                                                         item_status)]
    /\ UNCHANGED <<widgets, openai, config_json, llm_call>>
    /\ UNCHANGED <<checklist_data, submitted_form_data, pc, first_summary,
                   group_pass_rate_data, summary_percentages, comments_call,
                   key_call, session_state>>

NextAdvice == CallAdvice

AdviceSpec == InitAdvice /\ [][NextAdvice]_vars

----------------------------------------------------------------------------
(* generate_inspection_pdf: the summary of line 173 handed to the narrative  *)
(* of line 286, with any advisory text                                       *)

MaxStatItems == 10

\* the answers of a form on which the first p items are passed, the next f
\* failed and the others left at "Select Status"
AnswersByCount(checklist, p, f) ==
    [k \in ItemKeys(checklist) |->
        LET i == CHOOSE j \in 1..Len(checklist[1].Checklist) :
                     UniqueId(checklist[1], checklist[1].Checklist[j]) = k
        IN  IF i <= p THEN O_Pass ELSE IF i <= p + f THEN O_Fail
            ELSE O_SelectStatus]

\* advisory texts: what generate_trip_advice may return, and the values a
\* caller may pass instead
AdviceTexts ==
    {None, <<>>,
     \* line 457 of src/stream.py
     <<"C","o","u","l","d"," ","n","o","t"," ","g","e","n","e","r","a","t",
       "e"," ","t","r","i","p"," ","a","d","v","i","c","e",".">>,
     \* the all-clear header and two lines
     <<"#","#"," ","U+2705"," ","T","r","i","p"," ","P","r","e","p","a","r",
       "e","d","n","e","s","s",":"," ","A","l","l"," ","C","l","e","a","r",
       "!","\n","A","l","l"," ","g","o","o","d",".","\n","D","r","i","v",
       "e"," ","s","a","f","e","l","y",".">>,
     \* the caution header, a blank line and a line
     <<"#","#"," ","U+26A0","U+FE0F"," ","T","r","i","p"," ","P","r","e",
       "p","a","r","e","d","n","e","s","s",":"," ","C","a","u","t","i","o",
       "n"," ","N","e","e","d","e","d","\n","\n","F","i","x"," ","t","h",
       "e"," ","b","r","a","k","e","s",".","\n">>,
     \* both headers, the first one twice
     <<"#","#"," ","U+26A0","U+FE0F"," ","T","r","i","p"," ","P","r","e",
       "p","a","r","e","d","n","e","s","s",":"," ","C","a","u","t","i","o",
       "n"," ","N","e","e","d","e","d","\n","#","#"," ","U+2705"," ","T",
       "r","i","p"," ","P","r","e","p","a","r","e","d","n","e","s","s",":",
       " ","A","l","l"," ","C","l","e","a","r","!","\n","#","#"," ",
       "U+26A0","U+FE0F"," ","T","r","i","p"," ","P","r","e","p","a","r",
       "e","d","n","e","s","s",":"," ","C","a","u","t","i","o","n"," ","N",
       "e","e","d","e","d">>,
     \* a header without its marker
     <<"T","r","i","p"," ","P","r","e","p","a","r","e","d","n","e","s","s",
       ":"," ","A","l","l"," ","C","l","e","a","r","!","\n">>}

InitComments ==
    /\ \E n \in 0..MaxStatItems : \E p \in 0..n : \E f \in 0..(n - p) :
          LET checklist == MakeChecklist(<<n>>, 0)
          IN  /\ checklist_data = checklist
              /\ submitted_form_data = AnswersByCount(checklist, p, f)
    /\ pc = "build"
    /\ first_summary = NotCalled
    /\ group_pass_rate_data = NotCalled
    /\ summary_percentages = NotCalled
    /\ advice_call = NotCalled
    /\ comments_call = NotCalled
    /\ key_call = NotCalled
    /\ widgets = NoWidgets
    /\ openai = NoAccountActivity
    /\ config_json = NoConfigFile
    /\ llm_call = NotCalled
    /\ session_state = NotCalled

\* line 173: summary_percentages = _calculate_summary_percentages(...)
BuildSummary ==
    /\ pc = "build"
    /\ summary_percentages' =
           CalculateSummaryPercentages(checklist_data, submitted_form_data)
    /\ pc' = IF summary_percentages'.outcome = "raised" THEN "raised"
             ELSE "summarised"
    /\ UNCHANGED <<widgets, openai, config_json, llm_call>>
    /\ UNCHANGED <<checklist_data, submitted_form_data, first_summary,
                   group_pass_rate_data, advice_call, comments_call, key_call,
                   session_state>>

\* line 286: _generate_comments_and_analysis(summary_percentages,
\* trip_advice_content)
BuildComments ==
    /\ pc = "summarised"
    /\ \E trip_advice_content \in AdviceTexts :
          comments_call' =
              [outcome |-> "called",
               trip_advice_content |-> trip_advice_content,
               result |-> GenerateCommentsAndAnalysis(summary_percentages.value,
                                                      trip_advice_content)]
    /\ pc' = "narrated"
    /\ UNCHANGED <<widgets, openai, config_json, llm_call>>
    /\ UNCHANGED <<checklist_data, submitted_form_data, first_summary,
                   group_pass_rate_data, summary_percentages, advice_call,
                   key_call, session_state>>

NextComments == BuildSummary \/ BuildComments

CommentsSpec == InitComments /\ [][NextComments]_vars

----------------------------------------------------------------------------
(* The composite key of two items whose ids the generator chose freely: the  *)
(* ids are str fields of the pydantic models, validated for nothing else     *)

MaxSerial == 2

KeyGroupIds == {<<"a">>, <<"a","_","b">>}

KeyChecklistIds == {<<"b">>, <<"c">>, <<"b","_","c">>}

\* a ChecklistGroup with the one item of the given ids
KeyGroup(group_id, checklist_id, serial_no) ==
    [GroupName |-> <<"G">>,
     GroupId |-> group_id,
     SerialNo |-> 1,
     Checklist |-> <<[ChecklistName |-> <<"C">>,
                      ChecklistSerialNo |-> serial_no,
                      ChecklistId |-> checklist_id,
                      ChecklistType |-> T_PassFail]>>]

InitKeys ==
    /\ \E g1 \in KeyGroupIds, g2 \in KeyGroupIds,
          c1 \in KeyChecklistIds, c2 \in KeyChecklistIds,
          n1 \in 1..MaxSerial, n2 \in 1..MaxSerial :
          checklist_data = <<KeyGroup(g1, c1, n1), KeyGroup(g2, c2, n2)>>
    /\ submitted_form_data = <<>>
    /\ pc = "keys"
    /\ first_summary = NotCalled
    /\ group_pass_rate_data = NotCalled
    /\ summary_percentages = NotCalled
    /\ advice_call = NotCalled
    /\ comments_call = NotCalled
    /\ key_call = NotCalled
    /\ widgets = NoWidgets
    /\ openai = NoAccountActivity
    /\ config_json = NoConfigFile
    /\ llm_call = NotCalled
    /\ session_state = NotCalled

\* the key of each item, as the form (stream.py:639, 657) and the scorer
\* (pdf_service.py:313) build it
BuildKeys ==
    /\ pc = "keys"
    /\ key_call' =
           [outcome |-> "called",
            keys |-> [g \in 1..Len(checklist_data) |->
                         UniqueId(checklist_data[g],
                                  checklist_data[g].Checklist[1])]]
    /\ pc' = "keyed"
    /\ UNCHANGED <<widgets, openai, config_json, llm_call>>
    /\ UNCHANGED <<checklist_data, submitted_form_data, first_summary,
                   group_pass_rate_data, summary_percentages, advice_call,
                   comments_call, session_state>>

NextKeys == BuildKeys

KeySpec == InitKeys /\ [][NextKeys]_vars

----------------------------------------------------------------------------
(* The wizard of src/stream.py.  Streamlit runs the script once per user     *)
(* event; an action is the script run for one event: the widgets rendered on *)
(* the way and the handler of the widget the user acted on.  A value of      *)
(* st.session_state that may be of several types carries its type.          *)

MaxFormResets == 3

PyNone == [type |-> "NoneType"]

PyStr(chars) == [type |-> "str", chars |-> chars]

PyDict(items) == [type |-> "dict", items |-> items]

\* FullChecklist(RootModel[List[ChecklistGroup]]): the model and its .root
FullChecklist(root) == [type |-> "FullChecklist", root |-> root]

\* the truth value of a session value in an if / and
TruthyValue(v) ==
    CASE v.type = "NoneType" -> FALSE
      [] v.type = "str" -> Len(v.chars) > 0
      [] v.type = "dict" -> DOMAIN v.items # {}
      [] v.type = "FullChecklist" -> TRUE
      [] v.type = "datetime" -> TRUE

\* str(uuid.uuid4()): the n-th value drawn, different from every other one
Uuid4(n) == [type |-> "str", uuid4 |-> n]

\* lines 96-147: the keys a script run creates when they are missing
InitialSessionState ==
    [show_generate_input |-> TRUE,
     show_checklist_overview |-> FALSE,
     show_inspection_form_actual |-> FALSE,
     show_report_section |-> FALSE,
     checklist_data |-> PyNone,
     form_reset_trigger |-> 0,
     selectbox_indices |-> <<>>,
     submitted_form_data |-> PyNone,
     pre_inspection_form_submitted |-> FALSE,
     user_name |-> PyNone,
     user_email |-> PyNone,
     vehicle_plate_number |-> PyNone,
     generated_pdf_path |-> PyNone,
     generated_pdf_temp_dir |-> PyNone,
     last_user_input |-> PyStr(<<>>),
     trip_advice_content |-> PyNone,
     total_session_tokens |-> 0,
     start_inspection_time |-> PyNone,
     user_anonymous_id |-> Uuid4(1),
     session_id |-> Uuid4(2)]

\* what the user may type into a text_input or the text_area
TextInputs == {<<>>, <<"x">>}

\* token_usage_info of a completed run (run.usage present or not), or the
\* None returned with every failure
TokenUsages ==
    {PyNone,
     [type |-> "dict", prompt_tokens |-> 0, completion_tokens |-> 0,
      total_tokens |-> 0],
     [type |-> "dict", prompt_tokens |-> 5, completion_tokens |-> 2,
      total_tokens |-> 7]}

\* if token_usage: a dict of three keys is true, None is not
TruthyUsage(token_usage) == token_usage.type # "NoneType"

\* the checklists the assistant may answer with: no group at all, a group
\* without items, one item, two groups of one item
GeneratedChecklists ==
    {FullChecklist(MakeChecklist(shape, 0)) :
        shape \in {<<>>, <<0>>, <<1>>, <<1, 1>>}}

\* the messages get_checklist_from_openai returns in place of a checklist
\* (lines 388, 392, 396) and generate_trip_advice in place of the advice
\* (lines 457, 461, 465)
Text_CouldNotGenerateChecklist ==
    <<"C","o","u","l","d"," ","n","o","t"," ","g","e","n","e","r","a","t","e",
      " ","c","h","e","c","k","l","i","s","t",".">>

Text_AssistantRunFailed ==
    <<"A","s","s","i","s","t","a","n","t"," ","r","u","n"," ","f","a","i","l",
      "e","d",".">>

Text_CouldNotGenerateTripAdvice ==
    <<"C","o","u","l","d"," ","n","o","t"," ","g","e","n","e","r","a","t","e",
      " ","t","r","i","p"," ","a","d","v","i","c","e",".">>

Text_FailedToGenerateTripAdvice ==
    <<"F","a","i","l","e","d"," ","t","o"," ","g","e","n","e","r","a","t","e",
      " ","t","r","i","p"," ","a","d","v","i","c","e",".">>

\* f"An error occurred: {e}"
Text_ErrorOccurred(e) ==
    <<"A","n"," ","e","r","r","o","r"," ","o","c","c","u","r","r","e","d",":",
      " ">> \o e

\* str(e) of an exception raised by the client
ExceptionTexts == {<<"e">>}

\* the statuses the loops of lines 316 and 427 keep waiting on, with
\* requires_action added
PollingStatusesWithRequiresAction ==
    {"queued", "in_progress", "cancelling", "requires_action"}

\* while run.status in ['queued', 'in_progress', 'cancelling']
PollingStatuses == {"queued", "in_progress", "cancelling"}

\* the statuses of a run that make the loop end
FinalStatuses ==
    {"completed", "failed", "expired", "cancelled", "requires_action",
     "incomplete"}

\* run.usage of a completed run: None or the three counts
RunUsages ==
    {PyNone,
     [type |-> "Usage", prompt_tokens |-> 5, completion_tokens |-> 2,
      total_tokens |-> 7]}

\* lines 330-338: token_usage_info, zeros when run.usage is None
TokenUsageInfo(usage) ==
    IF usage.type = "NoneType"
    THEN [type |-> "dict", prompt_tokens |-> 0, completion_tokens |-> 0,
          total_tokens |-> 0]
    ELSE [type |-> "dict", prompt_tokens |-> usage.prompt_tokens,
          completion_tokens |-> usage.completion_tokens,
          total_tokens |-> usage.total_tokens]

\* what the messages of the thread hold for the checklist run: a text that
\* parses and validates as the checklist root, a text json.loads rejects, a
\* text FullChecklist.model_validate rejects, or no assistant text at all
ChecklistAnswers ==
    {[kind |-> "checklist", root |-> c.root] : c \in GeneratedChecklists}
    \cup {[kind |-> "bad_json"], [kind |-> "invalid"], [kind |-> "no_text"]}

\* the same for the advice run: the text of the first text block, or none
AdviceAnswers ==
    {[kind |-> "text", text |-> t] :
        t \in {<<>>, <<"A","l","l"," ","C","l","e","a","r","!">>}}
    \cup {[kind |-> "no_text"]}

\* lines 323-392: what get_checklist_from_openai returns once the loop has
\* ended with run.status = status
ChecklistReturn(status, usage, answer) ==
    IF status = "completed"
    THEN CASE answer.kind = "checklist" ->
                  <<FullChecklist(answer.root), TokenUsageInfo(usage)>>
           [] answer.kind \in {"bad_json", "invalid"} -> <<PyNone, PyNone>>
           [] answer.kind = "no_text" ->
                  <<PyStr(Text_CouldNotGenerateChecklist), PyNone>>
    ELSE <<PyStr(Text_AssistantRunFailed), PyNone>>

\* lines 434-461: the same for generate_trip_advice
AdviceReturn(status, usage, answer) ==
    IF status = "completed"
    THEN CASE answer.kind = "text" ->
                  <<PyStr(answer.text), TokenUsageInfo(usage)>>
           [] answer.kind = "no_text" ->
                  <<PyStr(Text_CouldNotGenerateTripAdvice), PyNone>>
    ELSE <<PyStr(Text_FailedToGenerateTripAdvice), PyNone>>

\* lines 394-396 and 463-465: except Exception as e
ExceptionReturn(e) == <<PyStr(Text_ErrorOccurred(e)), PyNone>>

\* every pair get_checklist_from_openai may return
ChecklistResults ==
    {ChecklistReturn(status, usage, answer) :
        status \in FinalStatuses, usage \in RunUsages,
        answer \in ChecklistAnswers}
    \cup {ExceptionReturn(e) : e \in ExceptionTexts}

\* every pair generate_trip_advice may return
TripAdviceResults ==
    {AdviceReturn(status, usage, answer) :
        status \in FinalStatuses, usage \in RunUsages,
        answer \in AdviceAnswers}
    \cup {ExceptionReturn(e) : e \in ExceptionTexts}

InitWizard ==
    /\ checklist_data = <<>>
    /\ submitted_form_data = <<>>
    /\ pc = "loaded"
    /\ first_summary = NotCalled
    /\ group_pass_rate_data = NotCalled
    /\ summary_percentages = NotCalled
    /\ advice_call = NotCalled
    /\ comments_call = NotCalled
    /\ key_call = NotCalled
    /\ widgets = NoWidgets
    /\ openai = NoAccountActivity
    /\ config_json = NoConfigFile
    /\ llm_call = NotCalled
    /\ session_state = InitialSessionState

\* the test of line 483 with the name alone
DetailsGivenNameOnly(user_name, user_email, vehicle_plate_number) ==
    user_name # <<>>

\* line 483: if user_name and user_email and vehicle_plate_number
DetailsGiven(user_name, user_email, vehicle_plate_number) ==
    user_name # <<>> /\ user_email # <<>> /\ vehicle_plate_number # <<>>

\* lines 474-512: the pre-inspection form, submitted with three texts
SubmitPreInspectionForm ==
    /\ ~session_state.pre_inspection_form_submitted
    /\ \E user_name \in TextInputs, user_email \in TextInputs,
          vehicle_plate_number \in TextInputs :
          IF DetailsGiven(user_name, user_email, vehicle_plate_number)
          THEN /\ session_state' =
                      [session_state EXCEPT
                          !.user_name = PyStr(user_name),
                          !.user_email = PyStr(user_email),
                          !.vehicle_plate_number = PyStr(vehicle_plate_number),
                          !.pre_inspection_form_submitted = TRUE]
               /\ pc' = "pre_inspection_form"
          ELSE /\ session_state' = session_state
               /\ pc' = "pre_inspection_form_warning"
    /\ UNCHANGED <<widgets, openai, config_json, llm_call>>
    /\ UNCHANGED <<checklist_data, submitted_form_data, first_summary,
                   group_pass_rate_data, summary_percentages, advice_call,
                   comments_call, key_call>>

\* lines 551-555: the generator answered with an empty FullChecklist
EmptyChecklistKept(state) ==
    [state EXCEPT !.selectbox_indices = <<>>,
                  !.generated_pdf_path = PyNone,
                  !.generated_pdf_temp_dir = PyNone,
                  !.trip_advice_content = PyNone]

EmptyChecklistReset(state) ==
    [state EXCEPT !.checklist_data = PyNone,
                  !.selectbox_indices = <<>>,
                  !.generated_pdf_path = PyNone,
                  !.generated_pdf_temp_dir = PyNone,
                  !.trip_advice_content = PyNone]

\* the key of a form widget: f"{group.GroupId}_{item.ChecklistId}_{item.ChecklistSerialNo}"
\* (stream.py:586, 639, 657), here without the serial number
FormKeyWithoutSerial(group, item) ==
    group.GroupId \o <<"_">> \o item.ChecklistId

FormKey(group, item) ==
    group.GroupId \o <<"_">> \o item.ChecklistId \o <<"_">>
        \o IntToStr(item.ChecklistSerialNo)

\* the form keys of the items of a checklist
FormKeys(root) ==
    UNION {{FormKey(root[g], root[g].Checklist[i]) :
                i \in 1..Len(root[g].Checklist)} : g \in 1..Len(root)}

\* lines 579-582 with the input step left visible
ChecklistReadyFlagsInputKept(state) ==
    [state EXCEPT !.show_checklist_overview = TRUE,
                  !.show_inspection_form_actual = FALSE,
                  !.show_report_section = FALSE]

\* lines 579-582 with the overview skipped
ChecklistReadyFlagsFormShown(state) ==
    [state EXCEPT !.show_generate_input = FALSE,
                  !.show_checklist_overview = FALSE,
                  !.show_inspection_form_actual = TRUE,
                  !.show_report_section = FALSE]

\* lines 579-582
ChecklistReadyFlags(state) ==
    [state EXCEPT !.show_generate_input = FALSE,
                  !.show_checklist_overview = TRUE,
                  !.show_inspection_form_actual = FALSE,
                  !.show_report_section = FALSE]

\* lines 558-589: a checklist with at least one group was returned
ChecklistAccepted(state, token_usage_checklist) ==
    LET counted ==
            IF TruthyUsage(token_usage_checklist)
            THEN [state EXCEPT !.total_session_tokens =
                                   @ + token_usage_checklist.total_tokens]
            ELSE state
    IN  [ChecklistReadyFlags(counted) EXCEPT
            !.selectbox_indices =
                [k \in FormKeys(state.checklist_data.root) |-> 0]]

\* the account after a call of get_checklist_from_openai or
\* generate_trip_advice: a run that completed and whose usage the call
\* returned (lines 330-338, 438-446) is on record with that usage
RunLogged(account, assistant, token_usage) ==
    IF TruthyUsage(token_usage)
    THEN [account EXCEPT !.runs =
              Append(@, [assistant |-> assistant, status |-> "completed",
                         total_tokens |-> token_usage.total_tokens])]
    ELSE account

\* lines 527-593: the Generate Checklist button, pressed with the text
\* actual_input in the text area
GenerateChecklist ==
    /\ session_state.pre_inspection_form_submitted
    /\ session_state.show_generate_input
    /\ session_state.form_reset_trigger < MaxFormResets
    /\ \E actual_input \in TextInputs, result \in ChecklistResults :
          /\ IF actual_input = <<>>
             THEN /\ session_state' = session_state
                  /\ pc' = "generate_checklist_warning"
             ELSE LET assigned ==
                       [session_state EXCEPT
                           !.last_user_input = PyStr(actual_input),
                           !.checklist_data = result[1]]
                   reran(state) ==
                       [state EXCEPT !.form_reset_trigger = @ + 1]
               IN  CASE result[1].type = "NoneType" ->
                            /\ session_state' = reran(assigned)
                            /\ pc' = "generate_checklist_none"
                     [] result[1].type = "str" ->
                            \* 'str' object has no attribute 'root'
                            /\ session_state' = assigned
                            /\ pc' = "generate_checklist_raised"
                     [] (result[1].type = "FullChecklist"
                           /\ result[1].root = <<>>) ->
                            /\ session_state' =
                                   reran(EmptyChecklistReset(assigned))
                            /\ pc' = "generate_checklist_empty"
                     [] (result[1].type = "FullChecklist"
                           /\ result[1].root # <<>>) ->
                            /\ session_state' =
                                   reran(ChecklistAccepted(assigned, result[2]))
                            /\ pc' = "generate_checklist_accepted"
          /\ openai' = IF actual_input = <<>>
                       THEN openai
                       ELSE RunLogged(openai, "checklist", result[2])
    /\ UNCHANGED <<widgets, config_json, llm_call>>
    /\ UNCHANGED <<checklist_data, submitted_form_data, first_summary,
                   group_pass_rate_data, summary_percentages, advice_call,
                   comments_call, key_call>>

\* lines 612-615 without the assignment of line 612
InspectionStartedFlagsOverviewKept(state) ==
    [state EXCEPT !.show_inspection_form_actual = TRUE,
                  !.show_report_section = FALSE,
                  !.start_inspection_time = [type |-> "datetime"]]

\* lines 612-615
InspectionStartedFlags(state) ==
    [state EXCEPT !.show_checklist_overview = FALSE,
                  !.show_inspection_form_actual = TRUE,
                  !.show_report_section = FALSE,
                  !.start_inspection_time = [type |-> "datetime"]]

\* lines 596-628: the Start Inspection button under the overview
StartInspection ==
    /\ session_state.pre_inspection_form_submitted
    /\ session_state.show_checklist_overview
    /\ TruthyValue(session_state.checklist_data)
    /\ session_state' = InspectionStartedFlags(session_state)
    /\ pc' = "start_inspection"
    /\ UNCHANGED <<widgets, openai, config_json, llm_call>>
    /\ UNCHANGED <<checklist_data, submitted_form_data, first_summary,
                   group_pass_rate_data, summary_percentages, advice_call,
                   comments_call, key_call>>

\* the parameters of generate_inspection_pdf (pdf_service.py:29-37) and those
\* of them that have no default
PdfParameters ==
    {"user_name", "user_email", "vehicle_plate_number", "checklist_data",
     "submitted_form_data", "trip_advice_content", "file_name"}

PdfRequiredParameters == PdfParameters \ {"file_name"}

\* the keywords of the call of stream.py:740-749
PdfCallKeywords ==
    {"user_name", "user_email", "vehicle_plate_number", "checklist_data",
     "submitted_form_data", "trip_advice_content", "logo_path", "file_name"}

\* a call by keywords binds when every keyword names a parameter and every
\* parameter without default is given; otherwise Python raises TypeError
\* before the body runs
Binds(keywords, parameters, required) ==
    keywords \subseteq parameters /\ required \subseteq keywords

\* generate_inspection_pdf called with the keywords of the submit handler:
\* file_name when doc.build succeeded, None when it failed (lines 295-301)
GenerateInspectionPdfCall(file_name, build_ok) ==
    IF Binds(PdfCallKeywords, PdfParameters, PdfRequiredParameters)
    THEN Returned(IF build_ok THEN file_name ELSE PyNone)
    ELSE Raised

\* lines 654-658: form_data[key] = options[st.session_state.selectbox_indices[key]]
FormData(root, selectbox_indices) ==
    [k \in FormKeys(root) |-> Options[selectbox_indices[k] + 1]]

\* lines 636-755: the inspection form, submitted with the option of index
\* selected[key] chosen in the selectbox of each item
SubmitInspectionForm ==
    /\ session_state.pre_inspection_form_submitted
    /\ session_state.show_inspection_form_actual
    /\ TruthyValue(session_state.checklist_data)
    /\ session_state.form_reset_trigger < MaxFormResets
    /\ \E selected \in [FormKeys(session_state.checklist_data.root) -> 0..3],
          advice \in TripAdviceResults, build_ok \in BOOLEAN :
          LET root == session_state.checklist_data.root
              \* lines 639-650: each selectbox stores the index of its option
              rendered == [session_state EXCEPT !.selectbox_indices = selected]
              form_data == FormData(root, rendered.selectbox_indices)
              \* lines 662-665
              stored == [rendered EXCEPT
                            !.selectbox_indices = <<>>,
                            !.form_reset_trigger = @ + 1,
                            !.submitted_form_data = PyDict(form_data)]
              \* line 674
              summary == CalculateSummaryPercentages(root, form_data)
              \* lines 696-707
              advised == [stored EXCEPT
                            !.start_inspection_time = PyNone,
                            !.trip_advice_content = advice[1],
                            !.total_session_tokens =
                                IF TruthyUsage(advice[2])
                                THEN @ + advice[2].total_tokens ELSE @]
              \* lines 735-749
              pdf_path == PyStr(<<"p","d","f","_","p","a","t","h">>)
              pdf == GenerateInspectionPdfCall(pdf_path, build_ok)
          IN  /\ checklist_data' = root
              /\ submitted_form_data' = form_data
              /\ first_summary' = summary
              /\ IF summary.outcome = "raised"
                 THEN /\ session_state' = stored
                      /\ pc' = "submit_inspection_form_raised"
                 ELSE IF pdf.outcome = "raised"
                 THEN /\ session_state' = advised
                      /\ pc' = "submit_inspection_form_raised"
                 ELSE /\ session_state' =
                             [advised EXCEPT
                                 !.generated_pdf_path = pdf.value,
                                 !.generated_pdf_temp_dir =
                                     PyStr(<<"t","e","m","p","_","d","i","r">>),
                                 !.show_inspection_form_actual = FALSE,
                                 !.show_report_section = TRUE]
                      /\ pc' = "submit_inspection_form"
              /\ openai' = IF summary.outcome = "raised"
                           THEN openai
                           ELSE RunLogged(openai, "advice", advice[2])
    /\ UNCHANGED <<widgets, config_json, llm_call>>
    /\ UNCHANGED <<group_pass_rate_data, summary_percentages, advice_call,
                   comments_call, key_call>>

NextWizard ==
    \/ SubmitPreInspectionForm
    \/ GenerateChecklist
    \/ StartInspection
    \/ SubmitInspectionForm

WizardSpec == InitWizard /\ [][NextWizard]_vars

----------------------------------------------------------------------------
(* The report section (stream.py:756-827), rendered for the session states
   the tail of the submit handler (lines 750-754) writes *)

Label_Download ==
    <<"D","o","w","n","l","o","a","d"," ","I","n","s","p","e","c","t","i","o",
      "n"," ","R","e","p","o","r","t"," ","P","D","F">>

Label_StartNewSession ==
    <<"S","t","a","r","t"," ","N","e","w"," ","S","e","s","s","i","o","n">>

\* lines 757-827: the buttons of the report section; the else of line 826
\* shows an error message and no button
ReportSectionWidgets(state) ==
    IF state.pre_inspection_form_submitted /\ state.show_report_section
    THEN IF TruthyValue(state.generated_pdf_path)
         THEN {Label_Download, Label_StartNewSession}
         ELSE {}
    ELSE {}

\* lines 750-754 after the calls of lines 699-749: the session of a finished
\* submission, generated_pdf_path None when doc.build failed
ReportReadyStates ==
    {[InitialSessionState EXCEPT
         !.pre_inspection_form_submitted = TRUE,
         !.user_name = PyStr(<<"x">>),
         !.user_email = PyStr(<<"x">>),
         !.vehicle_plate_number = PyStr(<<"x">>),
         !.last_user_input = PyStr(<<"x">>),
         !.show_generate_input = FALSE,
         !.show_report_section = TRUE,
         !.checklist_data = c,
         !.form_reset_trigger = 2,
         !.submitted_form_data =
             PyDict(FormData(c.root, [k \in FormKeys(c.root) |-> option])),
         !.trip_advice_content = advice[1],
         !.total_session_tokens = tokens,
         !.generated_pdf_path = path,
         !.generated_pdf_temp_dir = PyStr(<<"t","e","m","p","_","d","i","r">>)] :
        c \in {g \in GeneratedChecklists : g.root # <<>>},
        option \in 0..3,
        advice \in TripAdviceResults,
        tokens \in {0, 7},
        path \in {PyNone, PyStr(<<"p","d","f","_","p","a","t","h">>)}}

InitReport ==
    /\ checklist_data = <<>>
    /\ submitted_form_data = <<>>
    /\ pc = "report_ready"
    /\ first_summary = NotCalled
    /\ group_pass_rate_data = NotCalled
    /\ summary_percentages = NotCalled
    /\ advice_call = NotCalled
    /\ comments_call = NotCalled
    /\ key_call = NotCalled
    /\ widgets = NoWidgets
    /\ openai = NoAccountActivity
    /\ config_json = NoConfigFile
    /\ llm_call = NotCalled
    /\ session_state \in ReportReadyStates

\* the script run that follows st.rerun() of line 755
RenderReportSection ==
    /\ pc = "report_ready"
    /\ widgets' = ReportSectionWidgets(session_state)
    /\ pc' = "report_shown"
    /\ UNCHANGED <<checklist_data, submitted_form_data, first_summary,
                   group_pass_rate_data, summary_percentages, advice_call,
                   comments_call, key_call, session_state, openai,
                   config_json, llm_call>>

\* lines 806-823 and the init block of the rerun (lines 96-147): every key
\* of the list is deleted and created again, form_reset_trigger is kept and
\* incremented
NewSession(state) ==
    [InitialSessionState EXCEPT
        !.form_reset_trigger = state.form_reset_trigger + 1,
        !.user_anonymous_id = Uuid4(state.user_anonymous_id.uuid4 + 2),
        !.session_id = Uuid4(state.session_id.uuid4 + 2)]

\* lines 791-823: the Start New Session button
StartNewSession ==
    /\ pc = "report_shown"
    /\ Label_StartNewSession \in widgets
    /\ session_state' = NewSession(session_state)
    /\ widgets' = NoWidgets
    /\ pc' = "start_new_session"
    /\ UNCHANGED <<checklist_data, submitted_form_data, first_summary,
                   group_pass_rate_data, summary_percentages, advice_call,
                   comments_call, key_call, openai, config_json, llm_call>>

NextReport ==
    \/ RenderReportSection
    \/ StartNewSession

ReportSpec == InitReport /\ [][NextReport]_vars

----------------------------------------------------------------------------
(* One call of get_checklist_from_openai (stream.py:292-396) or of
   generate_trip_advice (stream.py:399-465), an API call per step, next to
   the run of the assistant on the side of OpenAI *)

LlmFunctions == {"get_checklist_from_openai", "generate_trip_advice"}

AnswersOf(function) ==
    IF function = "get_checklist_from_openai"
    THEN ChecklistAnswers ELSE AdviceAnswers

\* the statuses a run of the Assistants API can move to from status
NextStatuses(status) ==
    CASE status = "queued" -> {"in_progress", "cancelling", "failed", "expired"}
      [] status = "in_progress" ->
             {"completed", "failed", "expired", "requires_action",
              "incomplete", "cancelling"}
      [] status = "cancelling" -> {"cancelled"}
      [] OTHER -> {}

InitPoll ==
    /\ checklist_data = <<>>
    /\ submitted_form_data = <<>>
    /\ pc = "llm_called"
    /\ first_summary = NotCalled
    /\ group_pass_rate_data = NotCalled
    /\ summary_percentages = NotCalled
    /\ advice_call = NotCalled
    /\ comments_call = NotCalled
    /\ key_call = NotCalled
    /\ widgets = NoWidgets
    /\ openai = NoAccountActivity
    /\ config_json = NoConfigFile
    /\ session_state = NotCalled
    /\ \E function \in LlmFunctions :
          llm_call = [function |-> function, status |-> "none",
                      result |-> <<PyNone, PyNone>>]

\* lines 297-311, 404-423: thread, message and run are created; the run
\* starts queued and will answer with answer and usage if it completes
CreateRun ==
    /\ pc = "llm_called"
    /\ \E answer \in AnswersOf(llm_call.function), usage \in RunUsages :
          openai' = [openai EXCEPT !.runs =
                        Append(@, [assistant |-> llm_call.function,
                                   status |-> "queued", usage |-> usage,
                                   answer |-> answer])]
    /\ llm_call' = [llm_call EXCEPT !.status = "queued"]
    /\ pc' = "polling"
    /\ UNCHANGED <<checklist_data, submitted_form_data, first_summary,
                   group_pass_rate_data, summary_percentages, advice_call,
                   comments_call, key_call, session_state, widgets,
                   config_json>>

\* the assistant run moves on by itself
RunAdvances ==
    /\ pc = "polling"
    /\ \E status \in NextStatuses(openai.runs[1].status) :
          openai' = [openai EXCEPT !.runs[1].status = status]
    /\ UNCHANGED <<checklist_data, submitted_form_data, pc, first_summary,
                   group_pass_rate_data, summary_percentages, advice_call,
                   comments_call, key_call, session_state, widgets,
                   config_json, llm_call>>

\* lines 316-321, 427-432: one turn of the loop, time.sleep(1) and retrieve
Poll ==
    /\ pc = "polling"
    /\ llm_call.status \in PollingStatuses
    /\ llm_call' = [llm_call EXCEPT !.status = openai.runs[1].status]
    /\ UNCHANGED <<checklist_data, submitted_form_data, pc, first_summary,
                   group_pass_rate_data, summary_percentages, advice_call,
                   comments_call, key_call, session_state, widgets, openai,
                   config_json>>

\* lines 323-392, 434-461: the loop has ended, the function returns
ReturnAfterLoop ==
    /\ pc = "polling"
    /\ llm_call.status \notin PollingStatuses
    /\ llm_call' =
           [llm_call EXCEPT !.result =
               IF llm_call.function = "get_checklist_from_openai"
               THEN ChecklistReturn(llm_call.status, openai.runs[1].usage,
                                    openai.runs[1].answer)
               ELSE AdviceReturn(llm_call.status, openai.runs[1].usage,
                                 openai.runs[1].answer)]
    /\ pc' = "llm_returned"
    /\ UNCHANGED <<checklist_data, submitted_form_data, first_summary,
                   group_pass_rate_data, summary_percentages, advice_call,
                   comments_call, key_call, session_state, widgets, openai,
                   config_json>>

\* lines 394-396, 463-465: a call of the client raises, before or inside the
\* loop, and the except clause returns
ReturnOnException ==
    /\ pc \in {"llm_called", "polling"}
    /\ llm_call.status \in PollingStatuses \cup {"none"}
    /\ \E e \in ExceptionTexts :
          llm_call' = [llm_call EXCEPT !.result = ExceptionReturn(e)]
    /\ pc' = "llm_returned"
    /\ UNCHANGED <<checklist_data, submitted_form_data, first_summary,
                   group_pass_rate_data, summary_percentages, advice_call,
                   comments_call, key_call, session_state, widgets, openai,
                   config_json>>

NextPoll ==
    \/ CreateRun
    \/ RunAdvances
    \/ Poll
    \/ ReturnAfterLoop
    \/ ReturnOnException

PollSpec == InitPoll /\ [][NextPoll]_vars

\* the function runs on (each statement is executed in turn) and, as the
\* loops take for granted, the run does not stay queued, in_progress or
\* cancelling for ever; nothing obliges the client to raise
PollFairSpec ==
    /\ PollSpec
    /\ WF_vars(CreateRun)
    /\ WF_vars(Poll)
    /\ WF_vars(ReturnAfterLoop)
    /\ WF_vars(RunAdvances)

----------------------------------------------------------------------------
(* setup_openai_resources (stream.py:202-280) with load_config and
   save_config (stream.py:26-34); one run per start of the application *)

\* resources on the account beyond which no further run is started
MaxCreated == 7

ConfigKeys ==
    {"file_id", "vector_store_id", "assistant_id_checklist",
     "assistant_id_advice"}

\* the id OpenAI gives to the next resource of a kind
NewId(account, kind) ==
    PyStr(<<kind, "-">> \o
          IntToStr(Cardinality({i \in 1..Len(account.resources) :
                                   account.resources[i].kind = kind}) + 1))

\* lines 26-30: the dict of config.json, {} when the file does not exist
load_config(file) ==
    IF file.exists THEN file.content ELSE [k \in {} |-> PyNone]

\* lines 32-34
save_config(config) == [exists |-> TRUE, content |-> config]

\* config.get(key)
ConfigGet(config, key) ==
    IF key \in DOMAIN config THEN config[key] ELSE PyNone

\* config[key] = id
ConfigSet(config, key, id) ==
    [k \in DOMAIN config \cup {key} |-> IF k = key THEN id ELSE config[k]]

\* a resource of the kind created on the account
Created(account, kind) ==
    [account EXCEPT !.resources =
        Append(@, [kind |-> kind, id |-> NewId(account, kind)])]

\* the locals of a run between two steps: the dict config, the ids, the
\* account, and whether an exception is on its way to line 278
Failed(st) == [st EXCEPT !.raised = TRUE]

\* lines 215-220: Step 1, files.create is call number 1
UploadFile(st, fail_at) ==
    IF st.raised \/ TruthyValue(st.file_id) THEN st
    ELSE IF fail_at = 1 THEN Failed(st)
    ELSE LET id == NewId(st.account, "file")
         IN  [st EXCEPT !.account = Created(st.account, "file"),
                        !.file_id = id,
                        !.config = ConfigSet(st.config, "file_id", id)]

\* lines 223-230: Step 2, vector_stores.create is call number 2 and
\* file_batches.create call number 3
CreateVectorStore(st, fail_at) ==
    IF st.raised \/ TruthyValue(st.vector_store_id) THEN st
    ELSE IF fail_at = 2 THEN Failed(st)
    ELSE LET id == NewId(st.account, "vector_store")
             made == [st EXCEPT !.account = Created(st.account, "vector_store")]
         IN  IF fail_at = 3 THEN Failed(made)
             ELSE [made EXCEPT
                      !.vector_store_id = id,
                      !.config = ConfigSet(st.config, "vector_store_id", id)]

\* lines 233-253 (key assistant_id_checklist, call number 4) and lines 256-272
\* (key assistant_id_advice, call number 5): assistants.create when the id is
\* missing, assistants.update otherwise
CreateOrUpdateAssistant(st, key, call, fail_at) ==
    IF st.raised THEN st
    ELSE IF fail_at = call THEN Failed(st)
    ELSE IF TruthyValue(st[key]) THEN st
    ELSE LET id == NewId(st.account, key)
         IN  [st EXCEPT !.account = Created(st.account, key),
                        ![key] = id,
                        !.config = ConfigSet(st.config, key, id)]

\* lines 203-280: the run in which call number fail_at raises (0: none does);
\* save_config is the last statement of the try block
Setup(file, account, fail_at) ==
    LET config == load_config(file)
        start == [config |-> config, account |-> account, raised |-> FALSE,
                  file_id |-> ConfigGet(config, "file_id"),
                  vector_store_id |-> ConfigGet(config, "vector_store_id"),
                  assistant_id_checklist |->
                      ConfigGet(config, "assistant_id_checklist"),
                  assistant_id_advice |->
                      ConfigGet(config, "assistant_id_advice")]
        done == CreateOrUpdateAssistant(
                    CreateOrUpdateAssistant(
                        CreateVectorStore(UploadFile(start, fail_at), fail_at),
                        "assistant_id_checklist", 4, fail_at),
                    "assistant_id_advice", 5, fail_at)
    IN  [file |-> IF done.raised THEN file ELSE save_config(done.config),
         account |-> done.account,
         raised |-> done.raised]

\* the application is started for the first time: no config.json, nothing
\* on the account
InitSetup ==
    /\ checklist_data = <<>>
    /\ submitted_form_data = <<>>
    /\ pc = "start"
    /\ first_summary = NotCalled
    /\ group_pass_rate_data = NotCalled
    /\ summary_percentages = NotCalled
    /\ advice_call = NotCalled
    /\ comments_call = NotCalled
    /\ key_call = NotCalled
    /\ widgets = NoWidgets
    /\ openai = NoAccountActivity
    /\ config_json = NoConfigFile
    /\ llm_call = NotCalled
    /\ session_state = NotCalled

\* line 283: a start of the application runs setup_openai_resources once
SetupOpenAiResources ==
    /\ Len(openai.resources) < MaxCreated
    /\ \E fail_at \in 0..5 :
          LET run == Setup(config_json, openai, fail_at)
          IN  /\ config_json' = run.file
              /\ openai' = run.account
              /\ pc' = IF run.raised THEN "setup_failed" ELSE "setup_returned"
    /\ UNCHANGED <<checklist_data, submitted_form_data, first_summary,
                   group_pass_rate_data, summary_percentages, advice_call,
                   comments_call, key_call, session_state, widgets, llm_call>>

NextSetup == SetupOpenAiResources

SetupSpec == InitSetup /\ [][NextSetup]_vars

----------------------------------------------------------------------------
(* What the claims speak of, stated without the loops of the code *)

\* the summaries the two calls of a submission returned so far
ReturnedSummaries ==
    {s.value : s \in {r \in {first_summary, summary_percentages} :
                          r.outcome = "returned"}}

\* the (group, item) index pairs of the checklist
Positions ==
    UNION {{<<g, i>> : i \in 1..Len(checklist_data[g].Checklist)} :
              g \in 1..Len(checklist_data)}

ItemAt(pos) == checklist_data[pos[1]].Checklist[pos[2]]

\* the answer stored for the item, None when there is none
AnswerAt(pos) ==
    DictGet(submitted_form_data, UniqueId(checklist_data[pos[1]], ItemAt(pos)))

\* the bucket the specification gives an answer
BucketOf(raw) ==
    IF raw = None THEN "skipped"
    ELSE IF Lower(Strip(raw)) \in {S_pass, S_yes, S_okay} THEN "passed"
    ELSE IF Lower(Strip(raw)) \in {S_fail, S_no, S_not_okay} THEN "failed"
    ELSE "skipped"

InBucket(b) == {pos \in Positions : BucketOf(AnswerAt(pos)) = b}

\* the positions in group order, then item order
RECURSIVE PositionsInOrder(_)
PositionsInOrder(g) ==
    IF g > Len(checklist_data) THEN <<>>
    ELSE [i \in 1..Len(checklist_data[g].Checklist) |-> <<g, i>>]
             \o PositionsInOrder(g + 1)

NeedsAttention(pos) == BucketOf(AnswerAt(pos)) \in {"failed", "skipped"}

\* the entries the specification asks for, in order
ExpectedAttention ==
    LET sel == SelectSeq(PositionsInOrder(1), NeedsAttention)
    IN  [k \in 1..Len(sel) |->
            [name |-> ItemAt(sel[k]).ChecklistName,
             type |-> ItemAt(sel[k]).ChecklistType,
             status |-> BucketOf(AnswerAt(sel[k]))]]

\* 0 <= a/b <= 100
InPercentRange(f) == f.den > 0 /\ 0 <= f.num /\ f.num <= 100 * f.den

\* the fraction f equals count / total * 100
IsPercentOf(f, count, total) == f.den > 0 /\ f.num * total = 100 * count * f.den

----------------------------------------------------------------------------
(* C1 *)

\* C1: in every summary returned, passed_count + failed_count + skipped_count
\* equals total_items, total_items is the number of items of all groups, and
\* the three counts are the sizes of three disjoint sets of items that cover
\* the checklist.
C1_CountsPartitionItems ==
    \A s \in ReturnedSummaries :
        /\ s.passed_count + s.failed_count + s.skipped_count = s.total_items
        /\ s.total_items = Cardinality(Positions)
        /\ s.passed_count = Cardinality(InBucket("passed"))
        /\ s.failed_count = Cardinality(InBucket("failed"))
        /\ s.skipped_count = Cardinality(InBucket("skipped"))

\* a scored checklist of two groups with an item in each bucket
C1_Witness ==
    /\ first_summary.outcome = "returned"
    /\ Len(checklist_data) = 2
    /\ first_summary.value.passed_count >= 1
    /\ first_summary.value.failed_count >= 1
    /\ first_summary.value.skipped_count >= 1

(* C2 *)

\* C2: every returned percentage is count / total_items * 100 and lies in
\* [0, 100]; with total_items = 0 all three are 0 and nothing needs attention;
\* no call raises (no division error).
C2_PercentagesDefined ==
    /\ pc # "raised"
    /\ first_summary.outcome # "raised"
    /\ summary_percentages.outcome # "raised"
    /\ \A s \in ReturnedSummaries :
        /\ InPercentRange(s.passed_percentage)
        /\ InPercentRange(s.failed_percentage)
        /\ InPercentRange(s.skipped_percentage)
        /\ s.total_items > 0 =>
              /\ IsPercentOf(s.passed_percentage, s.passed_count, s.total_items)
              /\ IsPercentOf(s.failed_percentage, s.failed_count, s.total_items)
              /\ IsPercentOf(s.skipped_percentage, s.skipped_count, s.total_items)
        /\ s.total_items = 0 =>
              /\ s.passed_percentage.num = 0
              /\ s.failed_percentage.num = 0
              /\ s.skipped_percentage.num = 0
              /\ s.items_requiring_attention = <<>>

\* a checklist that has a group but no item was scored
C2_Witness ==
    /\ first_summary.outcome = "returned"
    /\ Len(checklist_data) >= 1
    /\ first_summary.value.total_items = 0
    /\ first_summary.value.passed_percentage.num = 0

(* C3 *)

\* C3: an item is counted passed exactly when its answer, trimmed and
\* lowercased, is "pass", "yes" or "okay", failed exactly when it is "fail",
\* "no" or "not okay", skipped otherwise, whatever its ChecklistType.
C3_CaseAndPaddingIgnored ==
    \A s \in ReturnedSummaries :
        /\ s.passed_count =
             Cardinality({pos \in Positions :
                 /\ AnswerAt(pos) # None
                 /\ Lower(Strip(AnswerAt(pos))) \in {S_pass, S_yes, S_okay}})
        /\ s.failed_count =
             Cardinality({pos \in Positions :
                 /\ AnswerAt(pos) # None
                 /\ Lower(Strip(AnswerAt(pos))) \in {S_fail, S_no, S_not_okay}})
        /\ s.skipped_count =
             Cardinality({pos \in Positions :
                 \/ AnswerAt(pos) = None
                 \/ Lower(Strip(AnswerAt(pos))) \notin
                        {S_pass, S_yes, S_okay, S_fail, S_no, S_not_okay}})

\* " NOT OKAY\n" given for a Yes/No item was counted as failed
C3_Witness ==
    /\ first_summary.outcome = "returned"
    /\ Len(checklist_data) = 1
    /\ Len(checklist_data[1].Checklist) = 1
    /\ checklist_data[1].Checklist[1].ChecklistType = T_YesNo
    /\ AnswerAt(<<1, 1>>) = <<" ">> \o Upper(S_not_okay) \o <<"\n">>
    /\ first_summary.value.failed_count = 1

(* C4 *)

\* the answers the claim names as skipped: None, "", "no selection made" in any
\* letter case, and every string that is no pass or fail word once trimmed and
\* lowercased
NamedAsSkipped(raw) ==
    \/ raw = None
    \/ raw = <<>>
    \/ Lower(raw) = S_no_selection_made
    \/ Lower(Strip(raw)) \notin {S_pass, S_yes, S_okay, S_fail, S_no, S_not_okay}

\* C4: no call of the scorer raises; once the handler has called it a complete
\* summary is there; and every item whose answer is None, "", "no selection
\* made" in any case or an unrecognized string is classified skipped: with
\* k such items the summary has skipped_count = k and k attention entries of
\* status "skipped".
C4_NormalizationTotal ==
    /\ pc # "raised"
    /\ first_summary.outcome \in {"not_called", "returned"}
    /\ summary_percentages.outcome \in {"not_called", "returned"}
    /\ pc # "submitted" => first_summary.outcome = "returned"
    /\ pc = "summarised" => summary_percentages.outcome = "returned"
    /\ \A s \in ReturnedSummaries :
        LET k == Cardinality({pos \in Positions : NamedAsSkipped(AnswerAt(pos))})
            att == s.items_requiring_attention
        IN  /\ s.skipped_count = k
            /\ Cardinality({j \in 1..Len(att) : att[j].status = "skipped"}) = k
            /\ DOMAIN s = {"total_items", "passed_count", "passed_percentage",
                           "failed_count", "failed_percentage", "skipped_count",
                           "skipped_percentage", "items_requiring_attention"}

\* an item whose answer is None was scored and counted as skipped
C4_Witness ==
    /\ first_summary.outcome = "returned"
    /\ \E pos \in Positions :
          /\ UniqueId(checklist_data[pos[1]], ItemAt(pos)) \in DOMAIN submitted_form_data
          /\ AnswerAt(pos) = None
    /\ first_summary.value.skipped_count = 1

(* C5 *)

\* C5: items_requiring_attention holds, in group order then item order, one
\* entry {name, type, status} for each failed or skipped item and none for a
\* passed item; each status is the item's classification; its length is
\* failed_count + skipped_count.
C5_AttentionListExact ==
    \A s \in ReturnedSummaries :
        /\ s.items_requiring_attention = ExpectedAttention
        /\ Len(s.items_requiring_attention) = s.failed_count + s.skipped_count
        /\ \A j \in 1..Len(s.items_requiring_attention) :
              s.items_requiring_attention[j].status \in {"failed", "skipped"}

\* three items in one group: the first failed, the second unanswered, the
\* third passed; the list is the first two, in that order
C5_Witness ==
    /\ first_summary.outcome = "returned"
    /\ Len(checklist_data) = 1
    /\ Len(checklist_data[1].Checklist) = 3
    /\ first_summary.value.passed_count = 1
    /\ Len(first_summary.value.items_requiring_attention) = 2
    /\ first_summary.value.items_requiring_attention[1] =
          [name |-> checklist_data[1].Checklist[1].ChecklistName,
           type |-> checklist_data[1].Checklist[1].ChecklistType,
           status |-> "failed"]
    /\ first_summary.value.items_requiring_attention[2] =
          [name |-> checklist_data[1].Checklist[2].ChecklistName,
           type |-> checklist_data[1].Checklist[2].ChecklistType,
           status |-> "skipped"]

(* C6 *)

WithoutStaleKeys(form_data) == [j \in DOMAIN form_data \ StaleKeys |-> form_data[j]]

\* C7: a key of the answer map that is the key of no item changes nothing: the
\* summary and the group pass rates computed with it are those computed
\* without it, and no call raises.
C7_StaleKeysIgnored ==
    /\ pc # "raised"
    /\ \A s \in {first_summary, summary_percentages} :
          s.outcome # "not_called" =>
              s = CalculateSummaryPercentages(checklist_data,
                                              WithoutStaleKeys(submitted_form_data))
    /\ group_pass_rate_data.outcome # "not_called" =>
          group_pass_rate_data =
              CalculateGroupPassRates(checklist_data,
                                      WithoutStaleKeys(submitted_form_data))

\* a checklist with items was scored and rated with a stale key in the dict
C7_Witness ==
    /\ pc = "summarised"
    /\ StaleKeys \cap DOMAIN submitted_form_data # {}
    /\ StaleKeys \cap ItemKeys(checklist_data) = {}
    /\ WithoutStaleKeys(submitted_form_data) # submitted_form_data
    /\ summary_percentages.value.total_items >= 2
    /\ summary_percentages.value.passed_count >= 1

(* C8 *)

\* the number of passed items of group g, and the number of its items
PassedInGroup(g) == Cardinality({pos \in InBucket("passed") : pos[1] = g})

ItemsInGroup(g) == Len(checklist_data[g].Checklist)

\* C8: the list of group pass rates has one entry per group, in group order,
\* with the group's GroupName; the rate of group g is the formatted value of
\* (passed items of g) / (items of g) * 100, it is what the group gets when it
\* is rated alone, and a group without items gets "0%".
C8_OneRatePerGroup ==
    group_pass_rate_data.outcome # "not_called" =>
        /\ group_pass_rate_data.outcome = "returned"
        /\ Len(group_pass_rate_data.value) = Len(checklist_data)
        /\ \A g \in 1..Len(checklist_data) :
            LET entry == group_pass_rate_data.value[g]
            IN  /\ DOMAIN entry = {"GroupName", "PassRate"}
                /\ entry.GroupName = checklist_data[g].GroupName
                /\ entry = CalculateGroupPassRates(<<checklist_data[g]>>,
                                                   submitted_form_data).value[1]
                /\ ItemsInGroup(g) > 0 =>
                      entry.PassRate =
                          FormatPassRate([num |-> 100 * PassedInGroup(g),
                                          den |-> ItemsInGroup(g)])
                /\ ItemsInGroup(g) = 0 => entry.PassRate = <<"0", "%">>

\* two groups were rated: the first all passed, the second without items
C8_Witness ==
    /\ pc = "rated"
    /\ Len(checklist_data) = 2
    /\ ItemsInGroup(1) = 2
    /\ ItemsInGroup(2) = 0
    /\ group_pass_rate_data.value[1].PassRate = <<"1", "0", "0", "%">>
    /\ group_pass_rate_data.value[2].PassRate = <<"0", "%">>

(* C9 *)

\* v is num/den rounded to the nearest integer, an exact half going up
IsNearestHalfUp(v, num, den) ==
    /\ 2 * (num - v * den) < den
    /\ 2 * (v * den - num) <= den

\* v is num/den rounded to the nearest integer, an exact half going to the
\* even neighbour
IsNearestHalfEven(v, num, den) ==
    /\ 2 * (num - v * den) <= den
    /\ 2 * (v * den - num) <= den
    /\ (2 * (num - v * den) = den \/ 2 * (v * den - num) = den) => v % 2 = 0

\* C9 as claimed: for every group with n > 0 items of which p passed, the
\* integer of PassRate is 100*p/n rounded to the nearest whole number, an
\* exact half rounding up (1 of 8 gives "13%", 5 of 8 gives "63%").
C9_HalvesRoundUp ==
    group_pass_rate_data.outcome = "returned" =>
        \A g \in 1..Len(checklist_data) :
            LET n == ItemsInGroup(g)
                p == PassedInGroup(g)
            IN  n > 0 =>
                    \E v \in 0..100 :
                        /\ IsNearestHalfUp(v, 100 * p, n)
                        /\ group_pass_rate_data.value[g].PassRate =
                               IntToStr(v) \o <<"%">>

\* C9 as amended: for every group with n > 0 items of which p passed, the
\* integer of PassRate is 100*p/n rounded to the nearest whole number, an
\* exact half rounding to the even integer (1 of 8 gives "12%", 5 of 8 gives
\* "62%", 3 of 8 gives "38%").
C9_HalvesRoundToEven ==
    group_pass_rate_data.outcome = "returned" =>
        \A g \in 1..Len(checklist_data) :
            LET n == ItemsInGroup(g)
                p == PassedInGroup(g)
            IN  n > 0 =>
                    \E v \in 0..100 :
                        /\ IsNearestHalfEven(v, 100 * p, n)
                        /\ group_pass_rate_data.value[g].PassRate =
                               IntToStr(v) \o <<"%">>

\* a group of 8 items with 5 passed was rated "62%"
C9_Witness ==
    /\ pc = "rated"
    /\ Len(checklist_data) = 1
    /\ ItemsInGroup(1) = 8
    /\ PassedInGroup(1) = 5
    /\ group_pass_rate_data.value[1].PassRate = <<"6", "2", "%">>

(* C10 *)

\* the guidance texts of the three types are three different texts, and none
\* is the generic one
AdviceTextsDistinct ==
    Cardinality({AdvicePassFail, AdviceYesNo, AdviceOkayNotOkay, AdviceGeneric,
                 AdviceSkipped, AdviceUnknown}) = 6

\* C10 as claimed: the call returns; for status "failed" the text is the one of
\* the type for Pass/Fail, Yes/No and Okay/Not Okay and the generic text for
\* any other type; for "skipped" the fixed manual-inspection text; for any
\* other status the status-unknown text.
C10_OtherTypeIsGeneric ==
    advice_call.outcome = "called" =>
        /\ AdviceTextsDistinct
        /\ advice_call.result =
            Returned(FString(advice_call.item_name,
                IF advice_call.item_status = "failed"
                THEN IF advice_call.item_type = T_PassFail THEN AdvicePassFail
                     ELSE IF advice_call.item_type = T_YesNo THEN AdviceYesNo
                     ELSE IF advice_call.item_type = T_OkayNotOkay
                          THEN AdviceOkayNotOkay
                     ELSE AdviceGeneric
                ELSE IF advice_call.item_status = "skipped" THEN AdviceSkipped
                ELSE AdviceUnknown))

\* C10 as amended: the same, the type being compared without regard to letter
\* case (and without trimming): a type that differs from Pass/Fail, Yes/No or
\* Okay/Not Okay only in case gets that type's text, every other type the
\* generic text. The status is compared exactly.
C10_TypeComparedIgnoringCase ==
    advice_call.outcome = "called" =>
        /\ AdviceTextsDistinct
        /\ advice_call.result =
            Returned(FString(advice_call.item_name,
                IF advice_call.item_status = "failed"
                THEN IF Lower(advice_call.item_type) = Lower(T_PassFail)
                          THEN AdvicePassFail
                     ELSE IF Lower(advice_call.item_type) = Lower(T_YesNo)
                          THEN AdviceYesNo
                     ELSE IF Lower(advice_call.item_type) = Lower(T_OkayNotOkay)
                          THEN AdviceOkayNotOkay
                     ELSE AdviceGeneric
                ELSE IF advice_call.item_status = "skipped" THEN AdviceSkipped
                ELSE AdviceUnknown))

\* advice was asked for a failed item of type "YES/NO" and is the Yes/No text
C10_Witness ==
    /\ advice_call.outcome = "called"
    /\ advice_call.item_status = "failed"
    /\ advice_call.item_type = Upper(T_YesNo)
    /\ advice_call.result.outcome = "returned"
    /\ advice_call.result.value.tail = AdviceYesNo

----------------------------------------------------------------------------
(* C11 *)

\* the paragraphs of the narrative the last call returned, without the spacers
NarrativeParagraphs ==
    SelectSeq(comments_call.result.value, LAMBDA l : l.kind = "Paragraph")

AssessmentTexts == {Text_Excellent, Text_Mixed, Text_AllSkipped, Text_NonCompliance}

IsAssessment(paragraph) ==
    /\ paragraph.text.form = "fstring"
    /\ paragraph.text.template \in AssessmentTexts

\* the wordings of the Overall Assessment paragraphs of the narrative
ChosenAssessments ==
    {NarrativeParagraphs[i].text.template :
        i \in {j \in 1..Len(NarrativeParagraphs) :
                  IsAssessment(NarrativeParagraphs[j])}}

\* every item of the checklist was answered with a value that counts as skipped
EveryItemSkipped ==
    \A pos \in Positions : BucketOf(AnswerAt(pos)) = "skipped"

\* C11: the narrative holds exactly one Overall Assessment paragraph; it has
\* the excellent wording iff passed_percentage >= 90, the mixed wording iff
\* 50 <= passed_percentage < 90, the all-skipped wording iff
\* passed_percentage < 50 and skipped_count = total_items > 0, and the
\* non-compliance wording otherwise.  Exactly 90% is excellent, exactly 50% is
\* mixed, and a non-empty checklist with every item skipped gets the
\* all-skipped wording.
C11_AssessmentByThreshold ==
    comments_call.outcome = "called" =>
        LET s == summary_percentages.value
            pp == s.passed_percentage
            excellent == pp.num >= 90 * pp.den
            mixed == pp.num >= 50 * pp.den /\ pp.num < 90 * pp.den
            all_skipped == /\ pp.num < 50 * pp.den
                           /\ s.skipped_count = s.total_items
                           /\ s.total_items > 0
        IN  /\ Cardinality(ChosenAssessments) = 1
            /\ Text_Excellent \in ChosenAssessments <=> excellent
            /\ Text_Mixed \in ChosenAssessments <=> mixed
            /\ Text_AllSkipped \in ChosenAssessments <=> all_skipped
            /\ Text_NonCompliance \in ChosenAssessments
                   <=> ~excellent /\ ~mixed /\ ~all_skipped
            /\ 10 * s.passed_count = 9 * s.total_items /\ s.total_items > 0
                   => Text_Excellent \in ChosenAssessments
            /\ 2 * s.passed_count = s.total_items /\ s.total_items > 0
                   => Text_Mixed \in ChosenAssessments
            /\ Positions # {} /\ EveryItemSkipped
                   => Text_AllSkipped \in ChosenAssessments

\* nine items of ten passed: exactly 90%, and the excellent wording was chosen
C11_Witness ==
    /\ comments_call.outcome = "called"
    /\ summary_percentages.value.total_items = 10
    /\ summary_percentages.value.passed_count = 9
    /\ ChosenAssessments = {Text_Excellent}

----------------------------------------------------------------------------
(* C12 *)

\* what CPython 3 returns for the three replace() calls of lines 445-447 on
\* each text of AdviceTexts that is not empty
DisplayedAdvice ==
    [t \in AdviceTexts \ {None, <<>>} |->
        CASE t =
             <<"C","o","u","l","d"," ","n","o","t"," ","g","e","n","e","r",
               "a","t","e"," ","t","r","i","p"," ","a","d","v","i","c","e",
               ".">>
             ->
             <<"C","o","u","l","d"," ","n","o","t"," ","g","e","n","e","r",
               "a","t","e"," ","t","r","i","p"," ","a","d","v","i","c","e",
               ".">>
          [] t =
             <<"#","#"," ","U+2705"," ","T","r","i","p"," ","P","r","e","p",
               "a","r","e","d","n","e","s","s",":"," ","A","l","l"," ","C",
               "l","e","a","r","!","\n","A","l","l"," ","g","o","o","d",".",
               "\n","D","r","i","v","e"," ","s","a","f","e","l","y",".">>
             ->
             <<"<","b",">","O","v","e","r","a","l","l"," ","T","r","i","p",
               " ","P","r","e","p","a","r","e","d","n","e","s","s",":"," ",
               "A","l","l"," ","C","l","e","a","r","!","<","/","b",">","<",
               "b","r","/",">","A","l","l"," ","g","o","o","d",".","<","b",
               "r","/",">","D","r","i","v","e"," ","s","a","f","e","l","y",
               ".">>
          [] t =
             <<"#","#"," ","U+26A0","U+FE0F"," ","T","r","i","p"," ","P",
               "r","e","p","a","r","e","d","n","e","s","s",":"," ","C","a",
               "u","t","i","o","n"," ","N","e","e","d","e","d","\n","\n",
               "F","i","x"," ","t","h","e"," ","b","r","a","k","e","s",".",
               "\n">>
             ->
             <<"<","b",">","O","v","e","r","a","l","l"," ","T","r","i","p",
               " ","P","r","e","p","a","r","e","d","n","e","s","s",":"," ",
               "C","a","u","t","i","o","n"," ","N","e","e","d","e","d","<",
               "/","b",">","<","b","r","/",">","<","b","r","/",">","F","i",
               "x"," ","t","h","e"," ","b","r","a","k","e","s",".","<","b",
               "r","/",">">>
          [] t =
             <<"#","#"," ","U+26A0","U+FE0F"," ","T","r","i","p"," ","P",
               "r","e","p","a","r","e","d","n","e","s","s",":"," ","C","a",
               "u","t","i","o","n"," ","N","e","e","d","e","d","\n","#","#",
               " ","U+2705"," ","T","r","i","p"," ","P","r","e","p","a","r",
               "e","d","n","e","s","s",":"," ","A","l","l"," ","C","l","e",
               "a","r","!","\n","#","#"," ","U+26A0","U+FE0F"," ","T","r",
               "i","p"," ","P","r","e","p","a","r","e","d","n","e","s","s",
               ":"," ","C","a","u","t","i","o","n"," ","N","e","e","d","e",
               "d">>
             ->
             <<"<","b",">","O","v","e","r","a","l","l"," ","T","r","i","p",
               " ","P","r","e","p","a","r","e","d","n","e","s","s",":"," ",
               "C","a","u","t","i","o","n"," ","N","e","e","d","e","d","<",
               "/","b",">","<","b","r","/",">","<","b",">","O","v","e","r",
               "a","l","l"," ","T","r","i","p"," ","P","r","e","p","a","r",
               "e","d","n","e","s","s",":"," ","A","l","l"," ","C","l","e",
               "a","r","!","<","/","b",">","<","b","r","/",">","<","b",">",
               "O","v","e","r","a","l","l"," ","T","r","i","p"," ","P","r",
               "e","p","a","r","e","d","n","e","s","s",":"," ","C","a","u",
               "t","i","o","n"," ","N","e","e","d","e","d","<","/","b",">">>
          [] t =
             <<"T","r","i","p"," ","P","r","e","p","a","r","e","d","n","e",
               "s","s",":"," ","A","l","l"," ","C","l","e","a","r","!",
               "\n">>
             ->
             <<"T","r","i","p"," ","P","r","e","p","a","r","e","d","n","e",
               "s","s",":"," ","A","l","l"," ","C","l","e","a","r","!","<",
               "b","r","/",">">>]

\* the positions in the narrative of its Overall Assessment paragraphs
AssessmentPositions ==
    {i \in 1..Len(comments_call.result.value) :
        /\ comments_call.result.value[i].kind = "Paragraph"
        /\ IsAssessment(comments_call.result.value[i])}

\* the narrative begins with the paragraph that shows the str display, and
\* that paragraph comes before every Overall Assessment paragraph
BeginsWithAdvisory(display) ==
    /\ Len(comments_call.result.value) >= 1
    /\ comments_call.result.value[1] = Paragraph(Str(display), "normal_style")
    /\ \A i \in AssessmentPositions : i > 1

\* C12 as stated: for every advisory text, the empty string included, the
\* narrative begins with the paragraph that passes the text through (headers
\* substituted, newlines turned into breaks), before the Overall Assessment.
C12_AdvisoryAlwaysFirst ==
    comments_call.outcome = "called" /\ comments_call.trip_advice_content # None =>
        BeginsWithAdvisory(IF comments_call.trip_advice_content = <<>> THEN <<>>
                           ELSE DisplayedAdvice[comments_call.trip_advice_content])

\* C12 amended: for every non-empty advisory text the narrative begins with
\* the paragraph that passes the text through (headers substituted, newlines
\* turned into breaks), before the Overall Assessment; for the empty string
\* and for None the narrative has no advisory paragraph and begins with the
\* "Detailed Inspection Analysis" header.
C12_AdvisoryFirstWhenNonEmpty ==
    comments_call.outcome = "called" =>
        IF comments_call.trip_advice_content \in {None, <<>>}
        THEN /\ comments_call.result.value[1] =
                    Paragraph(Literal(Text_DetailedAnalysis), "h3_style")
             /\ \A i \in 1..Len(NarrativeParagraphs) :
                    NarrativeParagraphs[i].text.form # "str"
        ELSE BeginsWithAdvisory(DisplayedAdvice[comments_call.trip_advice_content])

\* a text with both headers and two newlines was passed through
C12_Witness ==
    /\ comments_call.outcome = "called"
    /\ Find(comments_call.trip_advice_content, H_Caution) = 1
    /\ Find(comments_call.trip_advice_content, H_AllClear) > 1
    /\ comments_call.result.value[1].text.form = "str"
    /\ Find(comments_call.result.value[1].text.chars, B_AllClear) > 1
    /\ Find(comments_call.result.value[1].text.chars, BR) > 1

----------------------------------------------------------------------------
(* C13 *)

\* the numbered paragraphs of the narrative, in their order
NumberedParagraphs ==
    SelectSeq(NarrativeParagraphs,
              LAMBDA l : l.text.form = "fstring" /\ l.text.template = "{i+1}. {advice}")

\* the "no resolution advice needed" paragraphs of the narrative
NoAdviceParagraphs ==
    SelectSeq(NarrativeParagraphs,
              LAMBDA l : l.text = Literal(Text_NoAdviceNeeded))

\* C13: the narrative has one numbered paragraph per entry of
\* items_requiring_attention, in list order, the i-th numbered i and holding
\* _get_resolution_advice of the i-th entry; it has one "no resolution advice
\* needed" paragraph when the list is empty and none otherwise; its last
\* element is the disclaimer paragraph.
C13_AdvicePerAttentionEntry ==
    comments_call.outcome = "called" =>
        LET attention == summary_percentages.value.items_requiring_attention
            lines == comments_call.result.value
        IN  /\ Len(NumberedParagraphs) = Len(attention)
            /\ \A i \in 1..Len(attention) :
                   /\ NumberedParagraphs[i].text.values.number = IntToStr(i)
                   /\ NumberedParagraphs[i].text.values.advice =
                          GetResolutionAdvice(attention[i].name, attention[i].type,
                                              attention[i].status).value
            /\ Len(NoAdviceParagraphs) = IF attention = <<>> THEN 1 ELSE 0
            /\ lines[Len(lines)] = Paragraph(Literal(Text_Disclaimer), "normal_style")

\* a narrative for a failed and a skipped item: two numbered paragraphs
C13_Witness ==
    /\ comments_call.outcome = "called"
    /\ Len(summary_percentages.value.items_requiring_attention) >= 2
    /\ \E i, j \in 1..Len(summary_percentages.value.items_requiring_attention) :
           /\ summary_percentages.value.items_requiring_attention[i].status = "failed"
           /\ summary_percentages.value.items_requiring_attention[j].status = "skipped"
    /\ Len(NumberedParagraphs) >= 2
    /\ NumberedParagraphs[2].text.values.number = <<"2">>

----------------------------------------------------------------------------
(* C14 *)

\* the (GroupId, ChecklistId, ChecklistSerialNo) triple of the item of group g
IdTriple(g) ==
    <<checklist_data[g].GroupId, checklist_data[g].Checklist[1].ChecklistId,
      checklist_data[g].Checklist[1].ChecklistSerialNo>>

\* C14 as stated: two items of one checklist whose (GroupId, ChecklistId,
\* ChecklistSerialNo) triples differ have different composite keys, also when
\* the ids contain the separator "_".
C14_KeysUnique ==
    key_call.outcome = "called" =>
        (IdTriple(1) # IdTriple(2) => key_call.keys[1] # key_call.keys[2])

----------------------------------------------------------------------------
(* C15 *)

\* the script run of the last step was a submission of the inspection form
FormSubmitted ==
    pc \in {"submit_inspection_form", "submit_inspection_form_raised"}

\* C15: after a submission of the inspection form, for every item of the
\* session's checklist the key the form stored the answer under is the key
\* the scorer looks up, the item has an entry in submitted_form_data, and the
\* lookup of the scorer (pdf_service.py:316, the same as lines 220 and 376)
\* does not return None.
C15_FormKeysAreScorerKeys ==
    FormSubmitted =>
        LET root == session_state.checklist_data.root
            form_data == session_state.submitted_form_data.items
        IN  /\ checklist_data = root
            /\ submitted_form_data = form_data
            /\ \A g \in 1..Len(root) : \A i \in 1..Len(root[g].Checklist) :
                   /\ FormKey(root[g], root[g].Checklist[i])
                          = UniqueId(root[g], root[g].Checklist[i])
                   /\ UniqueId(root[g], root[g].Checklist[i]) \in DOMAIN form_data
            /\ \A pos \in Positions : AnswerAt(pos) # None
            /\ first_summary.outcome = "returned"
            /\ first_summary.value.total_items = Cardinality(DOMAIN form_data)

\* a form of two items submitted with "Pass" and "N/A (Not Applicable)"
C15_Witness ==
    /\ FormSubmitted
    /\ Cardinality(Positions) = 2
    /\ {AnswerAt(pos) : pos \in Positions} = {O_Pass, O_NA}

----------------------------------------------------------------------------
(* C16 *)

\* C16 as stated: after the submit handler of the inspection form has run,
\* show_inspection_form_actual is False, show_report_section is True and
\* generated_pdf_path holds what generate_inspection_pdf returned, a path or
\* None, whatever the checklist and the selected options.
C16_SubmitReachesReport ==
    FormSubmitted =>
        /\ ~session_state.show_inspection_form_actual
        /\ session_state.show_report_section
        /\ session_state.generated_pdf_path
               \in {PyNone, PyStr(<<"p","d","f","_","p","a","t","h">>)}
        /\ pc = "submit_inspection_form"

----------------------------------------------------------------------------
(* C17 *)

\* the sections a script run renders in a session state (lines 474, 516,
\* 596, 631, 758)
PreFormShown(state) == ~state.pre_inspection_form_submitted

InputShown(state) ==
    state.pre_inspection_form_submitted /\ state.show_generate_input

OverviewShown(state) ==
    /\ state.pre_inspection_form_submitted
    /\ state.show_checklist_overview
    /\ TruthyValue(state.checklist_data)

FormShown(state) ==
    /\ state.pre_inspection_form_submitted
    /\ state.show_inspection_form_actual
    /\ TruthyValue(state.checklist_data)

ReportShown(state) ==
    state.pre_inspection_form_submitted /\ state.show_report_section

\* the step of the wizard: the last section shown, -1 when no section is
WizardStep(state) ==
    IF ReportShown(state) THEN 4
    ELSE IF FormShown(state) THEN 3
    ELSE IF OverviewShown(state) THEN 2
    ELSE IF InputShown(state) THEN 1
    ELSE IF PreFormShown(state) THEN 0
    ELSE -1

\* C17: a section appears only by the handler of the section before it: the
\* report by a submission of the inspection form, the form by Start
\* Inspection on the overview, the overview by a generation that returned a
\* checklist with at least one group, the trip-request input by the
\* submission of the pre-inspection form; no step of a session skips a
\* section or goes back.
C17_LinearFlow ==
    [][/\ (ReportShown(session_state') /\ ~ReportShown(session_state))
             => FormShown(session_state) /\ pc' = "submit_inspection_form"
       /\ (FormShown(session_state') /\ ~FormShown(session_state))
             => OverviewShown(session_state) /\ pc' = "start_inspection"
       /\ (OverviewShown(session_state') /\ ~OverviewShown(session_state))
             => /\ InputShown(session_state)
                /\ pc' = "generate_checklist_accepted"
                /\ session_state'.checklist_data.type = "FullChecklist"
                /\ session_state'.checklist_data.root # <<>>
       /\ (InputShown(session_state') /\ ~InputShown(session_state))
             => PreFormShown(session_state) /\ pc' = "pre_inspection_form"
       /\ WizardStep(session_state')
             \in {WizardStep(session_state), WizardStep(session_state) + 1}
      ]_vars

\* the inspection form is shown, after Start Inspection was pressed on the
\* overview of a generated checklist
C17_Witness ==
    /\ pc = "start_inspection"
    /\ WizardStep(session_state) = 3
    /\ session_state.checklist_data.type = "FullChecklist"
    /\ session_state.user_name # PyNone

----------------------------------------------------------------------------
(* C19 *)

\* a checklist was accepted: the wizard is past the input step
ChecklistInUse(state) == WizardStep(state) >= 2

\* C19: once a checklist is accepted, the Generate Checklist button is not
\* rendered, and no step of the session (Start Inspection, the rendering and
\* the submission of the form with its scoring) assigns or changes
\* checklist_data; the checklist handed to the scorer is that checklist.
C19_ChecklistReadOnly ==
    [][ChecklistInUse(session_state)
          => /\ ~InputShown(session_state)
             /\ session_state.checklist_data.type = "FullChecklist"
             /\ session_state'.checklist_data = session_state.checklist_data
             /\ ChecklistInUse(session_state')
             /\ pc' \in {"submit_inspection_form", "submit_inspection_form_raised"}
                    => checklist_data' = session_state.checklist_data.root
      ]_vars

\* the form of an accepted checklist of two groups was submitted and scored,
\* and the session still holds that checklist
C19_Witness ==
    /\ FormSubmitted
    /\ ChecklistInUse(session_state)
    /\ Len(session_state.checklist_data.root) = 2
    /\ first_summary.outcome = "returned"
    /\ first_summary.value.total_items = 2

----------------------------------------------------------------------------
(* C20 *)

\* C20: after the Generate Checklist handler ran with a generator that
\* returned a FullChecklist without groups, checklist_data is None,
\* selectbox_indices is empty, generated_pdf_path and trip_advice_content are
\* None, show_generate_input is True and the three other flags are False:
\* the wizard shows the input step and no overview, form or report.
C20_EmptyChecklistStaysAtInput ==
    pc = "generate_checklist_empty" =>
        /\ session_state.checklist_data = PyNone
        /\ DOMAIN session_state.selectbox_indices = {}
        /\ session_state.generated_pdf_path = PyNone
        /\ session_state.trip_advice_content = PyNone
        /\ session_state.show_generate_input
        /\ ~session_state.show_checklist_overview
        /\ ~session_state.show_inspection_form_actual
        /\ ~session_state.show_report_section
        /\ WizardStep(session_state) = 1

\* the handler ran for a typed request and an empty checklist, twice over
C20_Witness ==
    /\ pc = "generate_checklist_empty"
    /\ session_state.last_user_input = PyStr(<<"x">>)
    /\ session_state.form_reset_trigger = 2
    /\ InputShown(session_state)

----------------------------------------------------------------------------
(* C21 *)

\* C21: for a checklist without items (total_items = 0) the narrative is
\* returned, its Overall Assessment has the significant non-compliance
\* wording and not the all-skipped one, and its advice section is the single
\* "no resolution advice needed" paragraph.
C21_EmptyChecklistNarrative ==
    comments_call.outcome = "called"
    /\ summary_percentages.value.total_items = 0 =>
        /\ comments_call.result.outcome = "returned"
        /\ ChosenAssessments = {Text_NonCompliance}
        /\ Len(NoAdviceParagraphs) = 1
        /\ Len(NumberedParagraphs) = 0

\* the narrative of a checklist whose one group has no item
C21_Witness ==
    /\ comments_call.outcome = "called"
    /\ Len(checklist_data) = 1
    /\ summary_percentages.value.total_items = 0
    /\ summary_percentages.value.skipped_count = 0
    /\ Text_NonCompliance \in ChosenAssessments

----------------------------------------------------------------------------
(* C22 *)

\* a run of the Generate Checklist handler that called get_checklist_from_openai
GenerationAttempted ==
    pc \in {"generate_checklist_none", "generate_checklist_raised",
            "generate_checklist_empty", "generate_checklist_accepted"}

\* C22: after a checklist-generation attempt, whatever its outcome, session
\* checklist_data is None or a non-empty FullChecklist and the handler has
\* finished without raising.
C22_GenerationLeavesNoneOrChecklist ==
    GenerationAttempted =>
        /\ pc # "generate_checklist_raised"
        /\ \/ session_state.checklist_data.type = "NoneType"
           \/ /\ session_state.checklist_data.type = "FullChecklist"
              /\ session_state.checklist_data.root # <<>>

----------------------------------------------------------------------------
(* C23 *)

----------------------------------------------------------------------------
(* C24 *)

\* the flags of the four sections that are True
ShownSections(state) ==
    {f \in {"show_generate_input", "show_checklist_overview",
            "show_inspection_form_actual", "show_report_section"} : state[f]}

\* C24: after every handler, when the script waits for the next input,
\* exactly one of show_generate_input, show_checklist_overview,
\* show_inspection_form_actual and show_report_section is True.
C24_ExactlyOneSectionShown ==
    Cardinality(ShownSections(session_state)) = 1

\* the form shown after Generate Checklist and Start Inspection
C24_Witness ==
    /\ pc = "start_inspection"
    /\ ShownSections(session_state) = {"show_inspection_form_actual"}

----------------------------------------------------------------------------
(* C25 *)

\* the items of the submitted checklist whose stored answer is one of answers
AnsweredWith(answers) == {pos \in Positions : AnswerAt(pos) \in answers}

\* C25: every answer a submission stores is one of the four options, whatever
\* the ChecklistType of the item; the scorer counts "Pass" as passed, "Fail"
\* as failed, "Select Status" and "N/A (Not Applicable)" as skipped, and lists
\* an item in items_requiring_attention exactly when its option is not "Pass".
C25_OptionsScored ==
    FormSubmitted =>
        LET summary == first_summary.value
            listed == {summary.items_requiring_attention[n].name :
                          n \in 1..Len(summary.items_requiring_attention)}
        IN  /\ \A pos \in Positions :
                   AnswerAt(pos) \in {Options[o] : o \in 1..Len(Options)}
            /\ summary.passed_count = Cardinality(AnsweredWith({O_Pass}))
            /\ summary.failed_count = Cardinality(AnsweredWith({O_Fail}))
            /\ summary.skipped_count =
                   Cardinality(AnsweredWith({O_SelectStatus, O_NA}))
            /\ \A pos \in Positions :
                   ItemAt(pos).ChecklistName \in listed <=> AnswerAt(pos) # O_Pass
            /\ Len(summary.items_requiring_attention) =
                   Cardinality(Positions \ AnsweredWith({O_Pass}))

\* two items of different ChecklistType, one left at "N/A (Not Applicable)"
\* and one at "Select Status"
C25_Witness ==
    /\ FormSubmitted
    /\ Cardinality({ItemAt(pos).ChecklistType : pos \in Positions}) = 2
    /\ {AnswerAt(pos) : pos \in Positions} = {O_SelectStatus, O_NA}
    /\ first_summary.value.skipped_count = 2

----------------------------------------------------------------------------
(* C26 *)

\* group_total_items and group_passed_count at the end of the iteration of
\* group number g of _calculate_group_pass_rates
GroupCounters(g) ==
    GroupItemLoop(GroupCountersAtGroupStart(InitialGroupCounters),
                  checklist_data[g], 1, submitted_form_data)

RECURSIVE SumOfGroups(_, _)
SumOfGroups(field, g) ==
    IF g = 0 THEN 0 ELSE GroupCounters(g)[field] + SumOfGroups(field, g - 1)

\* C26: once both calculators have run on a checklist and an answer map, the
\* pass rates returned are those of the per-group counters, the per-group
\* passed counts add up to passed_count of the summary and the per-group
\* item totals add up to total_items.
C26_GroupCountsAddUp ==
    pc = "summarised" =>
        /\ Len(group_pass_rate_data.value) = Len(checklist_data)
        /\ \A g \in 1..Len(checklist_data) :
               group_pass_rate_data.value[g].PassRate
                   = FormatPassRate(GroupPassPercentage(GroupCounters(g)))
        /\ SumOfGroups("group_passed_count", Len(checklist_data))
               = summary_percentages.value.passed_count
        /\ SumOfGroups("group_total_items", Len(checklist_data))
               = summary_percentages.value.total_items

\* two groups with a pass in each, one of them written in another case
C26_Witness ==
    /\ pc = "summarised"
    /\ Len(checklist_data) = 2
    /\ GroupCounters(1).group_passed_count >= 1
    /\ GroupCounters(2).group_passed_count >= 1
    /\ \E k \in DOMAIN submitted_form_data :
           /\ submitted_form_data[k] \notin PassWords
           /\ Lower(Strip(submitted_form_data[k])) \in PassWords
    /\ summary_percentages.value.passed_count >= 2

----------------------------------------------------------------------------
(* C27 *)

RECURSIVE TokensOfRuns(_)
TokensOfRuns(runs) ==
    IF runs = <<>> THEN 0
    ELSE runs[1].total_tokens + TokensOfRuns(Tail(runs))

\* C27: total_session_tokens is the sum of total_tokens of every completed
\* checklist-generation and trip-advice run of the session that reported
\* usage.
C27_TokensAreSumOfRuns ==
    session_state.total_session_tokens = TokensOfRuns(openai.runs)

----------------------------------------------------------------------------
(* C28 *)

\* the call has returned from the statements after the loop
ReturnedAfterLoop ==
    pc = "llm_returned" /\ llm_call.status \in FinalStatuses

----------------------------------------------------------------------------
(* C29 *)

\* the resources of a kind created on the account so far
CreatedOfKind(kind) ==
    {i \in 1..Len(openai.resources) : openai.resources[i].kind = kind}

\* the key of config.json that holds the id of a resource of the kind
ConfigKeyOf(kind) == IF kind = "file" THEN "file_id"
                     ELSE IF kind = "vector_store" THEN "vector_store_id"
                     ELSE kind

\* C29: across runs of setup_openai_resources each of the uploaded file, the
\* vector store and the two assistants is created at most once, and every id
\* created is in config.json after the run, also when a later step raised.
C29_CreatedOnceAndPersisted ==
    /\ \A kind \in {"file", "vector_store", "assistant_id_checklist",
                    "assistant_id_advice"} :
           Cardinality(CreatedOfKind(kind)) <= 1
    /\ \A i \in 1..Len(openai.resources) :
           /\ config_json.exists
           /\ ConfigKeyOf(openai.resources[i].kind) \in DOMAIN config_json.content
           /\ config_json.content[ConfigKeyOf(openai.resources[i].kind)]
                  = openai.resources[i].id

----------------------------------------------------------------------------
(* C30 *)

\* a session value that is a str of at least one character
NonEmptyText(value) == value.type = "str" /\ TruthyValue(value)

\* C30: in every state a step leads to, pre_inspection_form_submitted True
\* comes with non-empty user_name, user_email and vehicle_plate_number; and a
\* submission of the pre-inspection form that is turned down with the warning
\* leaves pre_inspection_form_submitted False and the whole session state as
\* it was.
C30_PreInspectionDetailsRequired ==
    [][/\ session_state'.pre_inspection_form_submitted =>
              /\ NonEmptyText(session_state'.user_name)
              /\ NonEmptyText(session_state'.user_email)
              /\ NonEmptyText(session_state'.vehicle_plate_number)
       /\ pc' = "pre_inspection_form_warning" =>
              /\ ~session_state'.pre_inspection_form_submitted
              /\ session_state' = session_state]_vars

\* the form turned down once, some field having been left empty
C30_Witness ==
    /\ pc = "pre_inspection_form_warning"
    /\ ~session_state.pre_inspection_form_submitted
    /\ session_state.user_name = PyNone

====
